---- MODULE Spec2Model ----
(***************************************************************************)
(* A model of the import/export fixer of src/fix_imports.py.               *)
(*                                                                         *)
(* A file's text is a string, and the model edits it as the program does:  *)
(* offsets (match.start(), match.end(), slices, find, rfind) count         *)
(* characters, are 0-based and half-open as in Python.  Each regular       *)
(* expression of the program is an operator that decides, character by     *)
(* character, whether the expression matches at an offset and where the    *)
(* match ends (-1: no match); greedy repetition is the longest run, and    *)
(* where the program's expression can backtrack the operator tries the     *)
(* alternatives in the order the regex engine does.                        *)
(***************************************************************************)
EXTENDS Integers, Sequences, FiniteSets, TLC

NL == "\n"

\* \s, over the characters the modelled texts use.
Space == {" ", NL}

\* \w
WordChars == {
    "a", "b", "c", "d", "e", "f", "g", "h", "i", "j", "k", "l", "m", "n",
    "o", "p", "q", "r", "s", "t", "u", "v", "w", "x", "y", "z", "A", "B",
    "C", "D", "E", "F", "G", "H", "I", "J", "K", "L", "M", "N", "O", "P",
    "Q", "R", "S", "T", "U", "V", "W", "X", "Y", "Z", "0", "1", "2", "3",
    "4", "5", "6", "7", "8", "9", "_" }

Min(a, b) == IF a <= b THEN a ELSE b
Max(a, b) == IF a >= b THEN a ELSE b

\* F(v), with v evaluated before F is applied to it: the sequencing of
\* Python's assignment statements (x = v; ... x ...).
Bind(v, F(_)) == CHOOSE r \in {F(x) : x \in {v}} : TRUE

\* Python's s[a:b] for a, b >= 0 (offsets past the end are clipped).
Slice(s, a, b) ==
    LET lo == Min(Max(a, 0), Len(s))
        hi == Min(Max(b, 0), Len(s))
    IN  IF lo >= hi THEN "" ELSE SubSeq(s, lo + 1, hi)

From(s, a) == Slice(s, a, Len(s))
Upto(s, b) == Slice(s, 0, b)

\* The character at 0-based offset i; "" past either end of the text.
Ch(t, i) == IF i >= 0 /\ i < Len(t) THEN SubSeq(t, i + 1, i + 1) ELSE ""

IsSpace(c) == c \in Space
IsWordCh(c) == c \in WordChars

\* The literal s at offset i: the offset after it, or -1.
Lit(t, i, s) == IF i >= 0 /\ Slice(t, i, i + Len(s)) = s THEN i + Len(s) ELSE -1

\* \s* at offset i (greedy): the offset after the run.
RECURSIVE Ws0(_, _)
Ws0(t, i) == IF i >= 0 /\ IsSpace(Ch(t, i)) THEN Ws0(t, i + 1) ELSE i

\* \s+ at offset i (greedy), or -1.
Ws1(t, i) == IF i >= 0 /\ IsSpace(Ch(t, i)) THEN Ws0(t, i) ELSE -1

\* \w* at offset i (greedy).
RECURSIVE Word0(_, _)
Word0(t, i) == IF i >= 0 /\ IsWordCh(Ch(t, i)) THEN Word0(t, i + 1) ELSE i

\* \w+ at offset i (greedy), or -1.
Word1(t, i) == IF i >= 0 /\ IsWordCh(Ch(t, i)) THEN Word0(t, i) ELSE -1

\* \b at offset i
Boundary(t, i) == i >= 0 /\ (IsWordCh(Ch(t, i - 1)) # IsWordCh(Ch(t, i)))

\* The least and the greatest element of a non-empty set of integers.
Least(S) == CHOOSE x \in S : \A y \in S : x <= y
Greatest(S) == CHOOSE x \in S : \A y \in S : x >= y

\* str.find(c, i): the first offset >= i of the character c, or -1.
FindCh(t, c, i) ==
    LET at == {j \in i..(Len(t) - 1) : Ch(t, j) = c}
    IN  IF i < 0 \/ at = {} THEN -1 ELSE Least(at)

\* str.rfind(c, 0, e): the last offset < e of the character c, or -1.
RfindCh(t, c, e) ==
    LET at == {j \in 0..(Min(e, Len(t)) - 1) : Ch(t, j) = c}
    IN  IF at = {} THEN -1 ELSE Greatest(at)

\* The first offset >= i of a character of the set S, or -1.
FindAny(t, S, i) ==
    LET at == {j \in i..(Len(t) - 1) : Ch(t, j) \in S}
    IN  IF i < 0 \/ at = {} THEN -1 ELSE Least(at)

\* str.find(s, i): the first offset >= i at which the text s stands, or -1.
FindStr(t, s, i) ==
    LET at == {j \in i..(Len(t) - Len(s)) : Slice(t, j, j + Len(s)) = s}
    IN  IF i < 0 \/ at = {} THEN -1 ELSE Least(at)

\* str.rfind(s): the last offset at which the text s stands, or -1.
RfindStr(t, s) ==
    LET at == {j \in 0..(Len(t) - Len(s)) : Slice(t, j, j + Len(s)) = s}
    IN  IF at = {} THEN -1 ELSE Greatest(at)

\* str.rstrip(), str.lstrip(), str.strip()
RECURSIVE RStrip(_)
RStrip(t) ==
    IF Len(t) > 0 /\ IsSpace(Ch(t, Len(t) - 1)) THEN RStrip(Upto(t, Len(t) - 1)) ELSE t

RECURSIVE LStrip(_)
LStrip(t) == IF Len(t) > 0 /\ IsSpace(Ch(t, 0)) THEN LStrip(From(t, 1)) ELSE t

Strip(t) == LStrip(RStrip(t))

\* str.startswith, str.endswith
StartsWith(t, s) == Upto(t, Len(s)) = s
EndsWith(t, s) == Len(t) >= Len(s) /\ From(t, Len(t) - Len(s)) = s

\* s in t
Contains(t, s) == \E i \in 0..(Len(t) - Len(s)) : Slice(t, i, i + Len(s)) = s

\* str.split(sep), sep not empty: the pieces between the separators (empty
\* ones included).
RECURSIVE Split(_, _)
Split(s, sep) ==
    LET k == FindStr(s, sep, 0)
    IN  IF k < 0 THEN <<s>> ELSE <<Upto(s, k)>> \o Split(From(s, k + Len(sep)), sep)

\* sep.join(parts)
RECURSIVE Join(_, _)
Join(parts, sep) ==
    IF parts = <<>> THEN ""
    ELSE IF Len(parts) = 1 THEN parts[1]
    ELSE parts[1] \o sep \o Join(Tail(parts), sep)

\* A regular-expression match at an offset: its end (-1: none) and group 1.
NoMatch == [end |-> -1, g |-> ""]
Hit(e, grp) == IF e < 0 THEN NoMatch ELSE [end |-> e, g |-> grp]

\* (?:\s*;)? at offset e (e >= 0): the offset after it.
SemiOpt(t, e) ==
    IF e < 0 THEN -1
    ELSE LET j == Ws0(t, e) IN IF Ch(t, j) = ";" THEN j + 1 ELSE e

\* The first offset >= i at which M matches, or -1.
NextMatch(M(_, _), t, i) ==
    LET at == {j \in i..Len(t) : M(t, j).end >= 0}
    IN  IF at = {} THEN -1 ELSE Least(at)

\* re.finditer: the non-overlapping matches of M from offset i on, in order.
\* (After an empty match the scan moves on by one character.)
RECURSIVE FindIter(_, _, _)
FindIter(M(_, _), t, i) ==
    LET j == NextMatch(M, t, i)
        m == M(t, j)
    IN  IF j < 0 THEN <<>>
        ELSE <<[start |-> j, end |-> m.end, g |-> m.g]>>
                 \o FindIter(M, t, IF m.end = j THEN j + 1 ELSE m.end)

\* re.search: the first match of M in t (start -1: none).
Search(M(_, _), t) ==
    LET j == NextMatch(M, t, 0)
        m == M(t, j)
    IN  IF j < 0 THEN [start |-> -1, end |-> -1, g |-> ""]
        ELSE [start |-> j, end |-> m.end, g |-> m.g]

\* t with the matches ms[k..] replaced by repl, from offset pos on.
RECURSIVE SubMatches(_, _, _, _, _)
SubMatches(t, repl, ms, k, pos) ==
    IF k > Len(ms) THEN From(t, pos)
    ELSE Slice(t, pos, ms[k].start) \o repl \o SubMatches(t, repl, ms, k + 1, ms[k].end)

\* re.sub(M, repl, t) for a replacement without group references.
Sub(M(_, _), repl, t) == SubMatches(t, repl, FindIter(M, t, 0), 1, 0)

\* str.replace(old, new): every non-overlapping occurrence, left to right.
Replace(t, old, new) == Sub(LAMBDA s, i : Hit(Lit(s, i, old), ""), new, t)

(***************************************************************************)
(* The declaration scanner: find_all_exports, find_all_imports.            *)
(***************************************************************************)

\* export\s+default\s+(\w+)(?:\s*;)?
ReExportDefault(t, i) ==
    LET b == Ws1(t, Lit(t, Ws1(t, Lit(t, i, "export")), "default"))
        e == Word1(t, b)
    IN  Hit(SemiOpt(t, e), Slice(t, b, e))

\* export\s+default\s+function\s*\(
ReAnonFunction(t, i) ==
    LET b == Ws1(t, Lit(t, Ws1(t, Lit(t, i, "export")), "default"))
    IN  Hit(Lit(t, Ws0(t, Lit(t, b, "function")), "("), "")

\* export\s+default\s+class\s+\{
ReAnonClass(t, i) ==
    LET b == Ws1(t, Lit(t, Ws1(t, Lit(t, i, "export")), "default"))
    IN  Hit(Lit(t, Ws1(t, Lit(t, b, "class")), "{"), "")

\* export\s+class\s+(\w+)
ReExportClass(t, i) ==
    LET b == Ws1(t, Lit(t, Ws1(t, Lit(t, i, "export")), "class"))
        e == Word1(t, b)
    IN  Hit(e, Slice(t, b, e))

\* export\s+function\s+(\w+)
ReExportFunction(t, i) ==
    LET b == Ws1(t, Lit(t, Ws1(t, Lit(t, i, "export")), "function"))
        e == Word1(t, b)
    IN  Hit(e, Slice(t, b, e))

\* (?:const|let|var) at offset i
ConstLetVar(t, i) ==
    IF Lit(t, i, "const") >= 0 THEN Lit(t, i, "const")
    ELSE IF Lit(t, i, "let") >= 0 THEN Lit(t, i, "let")
    ELSE Lit(t, i, "var")

\* export\s+(?:const|let|var)\s+(\w+)
ReExportConst(t, i) ==
    LET b == Ws1(t, ConstLetVar(t, Ws1(t, Lit(t, i, "export"))))
        e == Word1(t, b)
    IN  Hit(e, Slice(t, b, e))

\* \{([^}]+)\} at offset i: group 1 is what stands between the braces.
ReBraces(t, i) ==
    LET a == Lit(t, i, "{")
        c == FindCh(t, "}", a)
    IN  IF a >= 0 /\ c > a THEN Hit(c + 1, Slice(t, a, c)) ELSE NoMatch

\* export\s*\{([^}]+)\}(?:\s*;)?
ReExportList(t, i) ==
    LET m == ReBraces(t, Ws0(t, Lit(t, i, "export")))
    IN  Hit(SemiOpt(t, m.end), m.g)

\* class\s+(\w+)
ReClass(t, i) ==
    LET b == Ws1(t, Lit(t, i, "class"))
        e == Word1(t, b)
    IN  Hit(e, Slice(t, b, e))

\* str.split(',')
SplitComma(s) == Split(s, ",")

\* Concatenation of a sequence of sequences.
RECURSIVE Flatten(_)
Flatten(ss) == IF ss = <<>> THEN <<>> ELSE Head(ss) \o Flatten(Tail(ss))

HasName(entries, name) == \E k \in 1..Len(entries) : entries[k].name = name

\* One scanned declaration: (name, match.start(), match.end()).
Entry(name, m) == [name |-> name, start |-> m.start, end |-> m.end]

Entries(ms) == [k \in 1..Len(ms) |-> Entry(ms[k].g, ms[k])]

AnonEntries(ms) == [k \in 1..Len(ms) |-> Entry("_anonymous_", ms[k])]

\* The entries of one export { ... } statement: one per piece of its list.
ListEntries(m) ==
    LET names == SplitComma(m.g)
    IN  [j \in 1..Len(names) |-> Entry(Strip(names[j]), m)]

\* find_all_exports
FindAllExports(t) ==
    LET default == Entries(FindIter(ReExportDefault, t, 0))
                       \o AnonEntries(FindIter(ReAnonFunction, t, 0))
                       \o AnonEntries(FindIter(ReAnonClass, t, 0))
        class == Entries(FindIter(ReExportClass, t, 0))
        function == Entries(FindIter(ReExportFunction, t, 0))
        const == Entries(FindIter(ReExportConst, t, 0))
        lists == FindIter(ReExportList, t, 0)
        destructured == Flatten([k \in 1..Len(lists) |-> ListEntries(lists[k])])
        Bare(m) ==
            LET line_start == RfindCh(t, NL, m.start) + 1
                preceding_text == Strip(Slice(t, line_start, m.start))
            IN  /\ ~EndsWith(preceding_text, "export")
                /\ ~EndsWith(preceding_text, "export default")
                /\ ~HasName(class, m.g)
                /\ ~HasName(destructured, m.g)
                /\ ~HasName(default, m.g)
        named == Entries(SelectSeq(FindIter(ReClass, t, 0), Bare))
    IN  [default |-> default, named |-> named, class |-> class,
         function |-> function, const |-> const, destructured |-> destructured]

\* The order in which Python iterates the dictionary find_all_exports returns.
ExportTypes == <<"default", "named", "class", "function", "const", "destructured">>

Quote == {"'", "\""}

\* ['"]([^'"]+)['"] at offset i: group 1 is what stands between the quotes.
ReQuoted(t, i) ==
    LET c == FindAny(t, Quote, i + 1)
    IN  IF i >= 0 /\ Ch(t, i) \in Quote /\ c > i + 1
        THEN Hit(c + 1, Slice(t, i + 1, c))
        ELSE NoMatch

\* \s+from\s+['"]([^'"]+)['"] at offset e: group 1 is the path.
ReFromPath(t, e) == ReQuoted(t, Ws1(t, Lit(t, Ws1(t, e), "from")))

\* import\s+(\w+)\s+from\s+['"]([^'"]+)['"] : groups <<name, path>>
ReImportDefault(t, i) ==
    LET b == Ws1(t, Lit(t, i, "import"))
        e == Word1(t, b)
        p == ReFromPath(t, e)
    IN  Hit(p.end, <<Slice(t, b, e), p.g>>)

\* import\s*\{([^}]+)\}\s+from\s+['"]([^'"]+)['"] : groups <<list, path>>
ReImportNamed(t, i) ==
    LET m == ReBraces(t, Ws0(t, Lit(t, i, "import")))
        p == ReFromPath(t, m.end)
    IN  Hit(p.end, <<m.g, p.g>>)

\* //.*?$ with re.MULTILINE: from // to the end of the line.
ReLineComment(t, i) ==
    LET n == FindCh(t, NL, i + 2)
    IN  IF Lit(t, i, "//") >= 0 THEN Hit(IF n < 0 THEN Len(t) ELSE n, "") ELSE NoMatch

\* One scanned import: (name, path, match.start(), match.end()).
Import(name, m) == [name |-> name, path |-> m.g[2], start |-> m.start, end |-> m.end]

\* The entries of one import { ... } statement: one per non-empty piece of
\* its list, under the name that stands before " as ".
NamedImports(m) ==
    LET import_list == Sub(ReLineComment, "", m.g[1])
        pieces == SplitComma(import_list)
        names == SelectSeq([j \in 1..Len(pieces) |-> Strip(pieces[j])],
                           LAMBDA n : n # "")
    IN  [j \in 1..Len(names) |-> Import(Strip(Split(names[j], " as ")[1]), m)]

\* find_all_imports
FindAllImports(t) ==
    LET defaults == FindIter(ReImportDefault, t, 0)
        lists == FindIter(ReImportNamed, t, 0)
    IN  [default |-> [k \in 1..Len(defaults) |-> Import(defaults[k].g[1], defaults[k])],
         named |-> Flatten([k \in 1..Len(lists) |-> NamedImports(lists[k])])]

(***************************************************************************)
(* remove_duplicate_exports                                                *)
(***************************************************************************)

\* A ChangeRecord: the description and the symbol it is about.
Change(msg, sym) == [msg |-> msg, sym |-> sym]

\* The number of characters searched on either side of a recorded span.
Window == 50

\* for export_type, export_list in exports.items(): for name, start, end in ...
AllDecls(exports) ==
    Flatten([k \in 1..Len(ExportTypes) |->
        LET es == exports[ExportTypes[k]]
        IN  [j \in 1..Len(es) |->
                [name |-> es[j].name, type |-> ExportTypes[k],
                 start |-> es[j].start, end |-> es[j].end]]])

\* all_exports[name]: the declarations of name, in insertion order.
PositionsOf(decls, name) == SelectSeq(decls, LAMBDA d : d.name = name)

\* The keys of all_exports, in insertion order.
RECURSIVE NamesInOrder(_, _)
NamesInOrder(decls, seen) ==
    IF decls = <<>> THEN <<>>
    ELSE LET n == Head(decls).name
         IN  IF n \in seen THEN NamesInOrder(Tail(decls), seen)
             ELSE <<n>> \o NamesInOrder(Tail(decls), seen \cup {n})

\* duplicates: the names with two or more declarations.
Duplicates(decls) ==
    SelectSeq(NamesInOrder(decls, {}), LAMBDA n : Len(PositionsOf(decls, n)) > 1)

\* positions.sort(key=lambda x: x[1], reverse=True): stable, by start, descending.
RECURSIVE SortByStartDesc(_)
SortByStartDesc(ps) ==
    IF ps = <<>> THEN <<>>
    ELSE LET mx == Greatest({ps[k].start : k \in 1..Len(ps)})
         IN  SelectSeq(ps, LAMBDA p : p.start = mx)
                 \o SortByStartDesc(SelectSeq(ps, LAMBDA p : p.start # mx))

HasType(ps, ty) == \E k \in 1..Len(ps) : ps[k].type = ty

\* export_types.index(ty), 0-based.
IndexOfType(ps, ty) == Least({k \in 1..Len(ps) : ps[k].type = ty}) - 1

\* keep_index: class > function > const > destructured, else the first position.
KeepIndex(ps) ==
    IF HasType(ps, "class") THEN IndexOfType(ps, "class")
    ELSE IF HasType(ps, "function") THEN IndexOfType(ps, "function")
    ELSE IF HasType(ps, "const") THEN IndexOfType(ps, "const")
    ELSE IF HasType(ps, "destructured") THEN IndexOfType(ps, "destructured")
    ELSE 0

\* \bNAME\b at offset j: the offset after it, or -1.
NameAt(t, j, name) ==
    LET e == Lit(t, j, name)
    IN  IF e >= 0 /\ Boundary(t, j) /\ Boundary(t, e) THEN e ELSE -1

\* export\s*\{[^}]*\bNAME\b[^}]*\}(?:\s*;)?
ReExportListWith(name, t, i) ==
    LET a == Lit(t, Ws0(t, Lit(t, i, "export")), "{")
        c == FindCh(t, "}", a)
    IN  IF a >= 0 /\ c >= a
           /\ \E j \in a..c : NameAt(t, j, name) >= 0 /\ NameAt(t, j, name) <= c
        THEN Hit(SemiOpt(t, c + 1), "")
        ELSE NoMatch

\* \b(\w+)\b at offset i
ReWord(t, i) ==
    IF Boundary(t, i) /\ IsWordCh(Ch(t, i)) THEN Hit(Word1(t, i), "") ELSE NoMatch

\* \s*\bNAME\b at offset c: \s* is tried at its longest, then empty (no
\* offset inside a run of white space is a word boundary).
WsName(name, t, c) ==
    IF NameAt(t, Ws0(t, c), name) >= 0 THEN NameAt(t, Ws0(t, c), name)
    ELSE NameAt(t, c, name)

\* ,?\s*\bNAME\b\s*,?   (the leading comma is tried first, then left out)
ReNameWithCommas(name, t, i) ==
    LET e == IF Ch(t, i) = "," /\ WsName(name, t, i + 1) >= 0
             THEN WsName(name, t, i + 1)
             ELSE WsName(name, t, i)
        f == Ws0(t, e)
    IN  IF e >= 0 THEN Hit(IF Ch(t, f) = "," THEN f + 1 ELSE f, "") ELSE NoMatch

\* <open>\s*<close>
RePair(open, close, t, i) == Hit(Lit(t, Ws0(t, Lit(t, i, open)), close), "")

\* new_export: the export statement without NAME (it has other entries).
RemoveNameFromList(name, export_content) ==
    Bind(Sub(LAMBDA t, i : ReNameWithCommas(name, t, i), "", export_content),
         LAMBDA s1 :
    Bind(Sub(LAMBDA t, i : RePair(",", ",", t, i), ",", s1), LAMBDA s2 :
    Bind(Sub(LAMBDA t, i : RePair("{", ",", t, i), "{", s2), LAMBDA s3 :
         Sub(LAMBDA t, i : RePair(",", "}", t, i), "}", s3))))

\* The inner loop's body for a destructured declaration that is not kept.
RemoveDestructured(st, name, p) ==
    LET content == st.content
        base == Max(0, p.start - Window)
        m == Search(LAMBDA t, i : ReExportListWith(name, t, i),
                    Slice(content, base, p.end + Window))
        actual_start == base + m.start
        actual_end == base + m.end
        export_content == Slice(content, actual_start, actual_end)
        names_in_export == FindIter(ReWord, Search(ReBraces, export_content).g, 0)
    IN  IF m.start < 0 THEN st
        ELSE IF Len(names_in_export) = 1
        THEN [content |-> Upto(content, actual_start) \o From(content, actual_end),
              changes |-> Append(st.changes, Change("Removed duplicate export", name))]
        ELSE [content |-> Upto(content, actual_start)
                              \o RemoveNameFromList(name, export_content)
                              \o From(content, actual_end),
              changes |-> Append(st.changes, Change("Removed from export statement", name))]

\* The inner loop's body for a declaration of another kind: its line is
\* deleted if the line, stripped, starts with export.
RemoveLine(st, name, p) ==
    LET content == st.content
        line_start == RfindCh(content, NL, p.start) + 1
        found == FindCh(content, NL, p.end)
        line_end == IF found = -1 THEN Len(content) ELSE found
        line == Slice(content, line_start, line_end)
    IN  IF StartsWith(Strip(line), "export")
        THEN [content |-> Upto(content, line_start) \o From(content, line_end + 1),
              changes |-> Append(st.changes,
                              Change("Removed duplicate " \o p.type \o " export", name))]
        ELSE st

RemoveOne(st, name, p) ==
    IF p.type = "destructured" THEN RemoveDestructured(st, name, p)
    ELSE RemoveLine(st, name, p)

\* for i, (export_type, start, end) in enumerate(positions): ...
RECURSIVE RemoveAllBut(_, _, _, _, _)
RemoveAllBut(st, name, ps, keep_index, i) ==
    IF i >= Len(ps) THEN st
    ELSE Bind(IF i = keep_index THEN st ELSE RemoveOne(st, name, ps[i + 1]),
              LAMBDA next : RemoveAllBut(next, name, ps, keep_index, i + 1))

\* The body of: for name, positions in duplicates.items()
ResolveName(st, decls, name) ==
    LET ps == SortByStartDesc(PositionsOf(decls, name))
    IN  RemoveAllBut(st, name, ps, KeepIndex(ps), 0)

RECURSIVE ResolveAll(_, _, _)
ResolveAll(st, decls, names) ==
    IF names = <<>> THEN st
    ELSE Bind(ResolveName(st, decls, Head(names)),
              LAMBDA next : ResolveAll(next, decls, Tail(names)))

\* The offset after the run of c that starts at offset i.
RECURSIVE RunEnd(_, _, _)
RunEnd(t, c, i) == IF Ch(t, i) = c THEN RunEnd(t, c, i + 1) ELSE i

\* ;;+
ReSemis(t, i) ==
    IF Ch(t, i) = ";" /\ Ch(t, i + 1) = ";" THEN Hit(RunEnd(t, ";", i), "") ELSE NoMatch

\* re.sub(r';;+', ';', content)
CollapseSemis(t) == Sub(ReSemis, ";", t)

\* The last offset in i..j-1 that holds NL, or -1.
LastNLIn(t, i, j) ==
    LET at == {k \in i..(j - 1) : Ch(t, k) = NL} IN IF at = {} THEN -1 ELSE Greatest(at)

\* \n\s*\n\s*\n : a NL, then a run of white space that holds two more NL; the
\* match ends after the last NL of the run.
ReBlankLines(t, i) ==
    LET r == Ws0(t, i + 1)
        last == LastNLIn(t, i + 1, r)
    IN  IF Ch(t, i) = NL /\ Cardinality({k \in (i + 1)..(r - 1) : Ch(t, k) = NL}) >= 2
        THEN Hit(last + 1, "")
        ELSE NoMatch

\* re.sub(r'\n\s*\n\s*\n', '\n\n', content)
CollapseBlankLines(t) == Sub(ReBlankLines, NL \o NL, t)

\* remove_duplicate_exports(content): (content, changes)
RemoveDuplicateExports(content) ==
    Bind(AllDecls(FindAllExports(content)), LAMBDA decls :
    Bind(Duplicates(decls), LAMBDA duplicates :
        IF duplicates = <<>> THEN [content |-> content, changes |-> <<>>]
        ELSE Bind(ResolveAll([content |-> content, changes |-> <<>>], decls, duplicates),
                  LAMBDA st :
             Bind(CollapseSemis(st.content), LAMBDA c1 :
                  [content |-> CollapseBlankLines(c1), changes |-> st.changes]))))

(***************************************************************************)
(* Paths.  A file is known by its path relative to the scanned directory   *)
(* (a.js, ui/UIComponent.js), as Path('.').rglob yields it.                *)
(***************************************************************************)

\* The final component of a path.
PathName(path) == From(path, RfindStr(path, "/") + 1)

\* Path(path).stem, os.path.splitext(os.path.basename(path))[0]: the final
\* component without its last suffix.
Stem(path) ==
    LET name == PathName(path)
        k == RfindStr(name, ".")
    IN  IF k > 0 /\ k < Len(name) - 1 THEN Upto(name, k) ELSE name

\* os.path.dirname of a relative path
Dirname(path) ==
    LET k == RfindStr(path, "/") IN IF k < 0 THEN "" ELSE Upto(path, k)

\* os.path.join(a, b) for a relative b
PathJoin(a, b) == IF a = "" \/ EndsWith(a, "/") THEN a \o b ELSE a \o "/" \o b

\* The loop of os.path.normpath over the components of a relative path.
RECURSIVE NormComps(_, _)
NormComps(comps, new_comps) ==
    IF comps = <<>> THEN new_comps
    ELSE LET comp == Head(comps)
         IN  IF comp = "" \/ comp = "." THEN NormComps(Tail(comps), new_comps)
             ELSE IF comp # ".." \/ new_comps = <<>>
                     \/ new_comps[Len(new_comps)] = ".."
             THEN NormComps(Tail(comps), Append(new_comps, comp))
             ELSE NormComps(Tail(comps), SubSeq(new_comps, 1, Len(new_comps) - 1))

\* os.path.normpath of a relative path
NormPath(path) ==
    LET r == Join(NormComps(Split(path, "/"), <<>>), "/") IN IF r = "" THEN "." ELSE r

\* resolve_import_path
ResolveImportPath(source_file, import_path) ==
    IF StartsWith(import_path, "./") \/ StartsWith(import_path, "../")
    THEN LET absolute_path == NormPath(PathJoin(Dirname(source_file), import_path))
         IN  IF EndsWith(absolute_path, ".js") THEN absolute_path
             ELSE absolute_path \o ".js"
    ELSE import_path

(***************************************************************************)
(* analyze_import_export_relationships                                     *)
(***************************************************************************)

\* The imports of one file as the first pass visits them: the default ones,
\* then the named ones, each with the module path it resolves to.
ImportsOf(js_file, text) ==
    LET imports == FindAllImports(text)
        Seen(kind) ==
            [k \in 1..Len(imports[kind]) |->
                [kind |-> kind,
                 module_path |-> ResolveImportPath(js_file, imports[kind][k].path)]]
    IN  Seen("default") \o Seen("named")

\* The tally where the first import of a module only creates its entry.
RECURSIVE CountAfterFirst(_, _)
CountAfterFirst(import_styles, seen) ==
    IF seen = <<>> THEN import_styles
    ELSE LET i == Head(seen)
             new == IF i.module_path \in DOMAIN import_styles
                    THEN [import_styles[i.module_path] EXCEPT ![i.kind] = @ + 1]
                    ELSE [named |-> 0, default |-> 0]
         IN  CountAfterFirst([p \in DOMAIN import_styles \cup {i.module_path} |->
                                 IF p = i.module_path THEN new ELSE import_styles[p]],
                             Tail(seen))

\* import_styles[module_path][kind] += 1, for each import in turn.
RECURSIVE Count(_, _)
Count(import_styles, seen) ==
    IF seen = <<>> THEN import_styles
    ELSE LET i == Head(seen)
             old == IF i.module_path \in DOMAIN import_styles
                    THEN import_styles[i.module_path]
                    ELSE [named |-> 0, default |-> 0]
             new == [old EXCEPT ![i.kind] = @ + 1]
         IN  Count([p \in DOMAIN import_styles \cup {i.module_path} |->
                       IF p = i.module_path THEN new ELSE import_styles[p]],
                   Tail(seen))

\* import_styles after the first pass over the files, read from the disk.
ImportStyles(files, disk) ==
    Count([p \in {} |-> [named |-> 0, default |-> 0]],
          Flatten([k \in 1..Len(files) |-> ImportsOf(files[k], disk[files[k]])]))

\* The decision with >= for >: a tie is decided named.
DecideNamedOnTie(counts) ==
    IF counts.named >= counts.default THEN "named"
    ELSE IF counts.default > 0 THEN "default"
    ELSE "named"

\* The style decided for one module from its counts.
Decide(counts) ==
    IF counts.named > counts.default THEN "named"
    ELSE IF counts.default > 0 THEN "default"
    ELSE "named"

\* export_style_map
ExportStyleMap(import_styles) ==
    [p \in DOMAIN import_styles |-> Decide(import_styles[p])]

(***************************************************************************)
(* The policy sets of main.                                                *)
(***************************************************************************)

keep_as_default_exports == {"UIComponent", "World", "main"}

should_be_named_exports == {
    "CONFIG", "UIConfig", "AssetManager", "TargetSystem", "WeatherSystem",
    "EnvironmentSystem", "MenuSystem", "ScreenManager", "MissionBriefing",
    "RoundSummary", "ScreenEffects", "HitIndicator", "Feature", "Sky",
    "EnhancedSky", "Enemy", "Player", "Level", "Weapon", "Bullet", "Blaster",
    "Shotgun", "AssaultRifle", "HealthPack", "Item", "WeaponItem", "Projectile",
    "CombatSystem", "HUDSystem", "NotificationSystem", "ProgressionSystem",
    "MovementSystem", "DOMFactory", "EventManager", "InputHandler" }

(***************************************************************************)
(* modernize_exports, _remove_named_export                                 *)
(***************************************************************************)

\* w1\s+w2\s+...\s+wn at offset i: the offset after it, or -1.
RECURSIVE ReWords(_, _, _)
ReWords(words, t, i) ==
    IF Len(words) = 1 THEN Lit(t, i, words[1])
    ELSE ReWords(Tail(words), t, Ws1(t, Lit(t, i, words[1])))

\* w1\s+...\s+wn\b
ReWordsB(words, t, i) ==
    LET e == ReWords(words, t, i) IN IF e >= 0 /\ Boundary(t, e) THEN e ELSE -1

\* The state a pass threads through its edits: the text and the changes.
Edited(content, changes) == [content |-> content, changes |-> changes]

\* The body of the loop of _remove_named_export for one match m of the scan
\* of the text the function was called with.
RemoveNamedFrom(st, name, m) ==
    LET pieces == SplitComma(m.g)
        names == [j \in 1..Len(pieces) |-> Strip(pieces[j])]
        new_export == "export { " \o Join(SelectSeq(names, LAMBDA n : n # name), ",")
                          \o " };"
    IN  IF ~\E j \in 1..Len(names) : names[j] = name THEN st
        ELSE IF Len(names) = 1
        THEN Edited(Upto(st.content, m.start) \o From(st.content, m.end),
                    Append(st.changes, Change("Removed named export", name)))
        ELSE Edited(Upto(st.content, m.start) \o new_export \o From(st.content, m.end),
                    Append(st.changes, Change("Removed from named exports", name)))

RECURSIVE RemoveNamedLoop(_, _, _, _)
RemoveNamedLoop(st, name, ms, k) ==
    IF k > Len(ms) THEN st
    ELSE Bind(RemoveNamedFrom(st, name, ms[k]),
              LAMBDA next : RemoveNamedLoop(next, name, ms, k + 1))

\* _remove_named_export(content, name)
RemoveNamedExport(content, name) ==
    RemoveNamedLoop(Edited(content, <<>>), name, FindIter(ReExportList, content, 0), 1)

\* The substitution with the replacement 'export {name};'.
DefaultToNamedUnspaced(content, name) ==
    Sub(LAMBDA t, i : Hit(SemiOpt(t, ReWords(<<"export", "default", name>>, t, i)), ""),
        "export {" \o name \o "};", content)

\* re.sub(r'export\s+default\s+' + name + r'(?:\s*;)?', 'export { name };', content)
DefaultToNamed(content, name) ==
    Sub(LAMBDA t, i : Hit(SemiOpt(t, ReWords(<<"export", "default", name>>, t, i)), ""),
        "export { " \o name \o " };", content)

\* The branch of modernize_exports for a file whose basename is kept default.
KeepDefault(content, exports, basename) ==
    IF HasName(exports.class, basename) /\ ~HasName(exports.default, basename)
    THEN IF HasName(exports.destructured, basename)
         THEN Bind(RemoveNamedExport(content, basename), LAMBDA st :
                  Edited(Sub(LAMBDA t, i : Hit(ReWordsB(<<"class", basename>>, t, i), ""),
                             "export default class " \o basename, st.content),
                         Append(st.changes, Change("Added default export", basename))))
         ELSE Edited(Sub(LAMBDA t, i :
                             Hit(ReWordsB(<<"export", "class", basename>>, t, i), ""),
                         "export default class " \o basename, content),
                     <<Change("Class to Default export", basename)>>)
    ELSE Edited(content, <<>>)

\* for name, start, end in exports['default']: ...
RECURSIVE ModernizeDefaults(_, _, _, _)
ModernizeDefaults(st, exports, basename, k) ==
    IF k > Len(exports.default) THEN st
    ELSE LET name == exports.default[k].name
             convert == /\ (name \in should_be_named_exports \/ name = basename)
                        /\ ~HasName(exports.destructured, name)
                        /\ ~HasName(exports.class, name)
                        /\ ~HasName(exports.function, name)
                        /\ ~HasName(exports.const, name)
         IN  Bind(IF convert
                  THEN Edited(DefaultToNamed(st.content, name),
                              Append(st.changes, Change("Default to Named export", name)))
                  ELSE st,
                  LAMBDA next : ModernizeDefaults(next, exports, basename, k + 1))

\* for name, start, end in exports['class']: ...
RECURSIVE ModernizeClasses(_, _, _)
ModernizeClasses(st, exports, k) ==
    IF k > Len(exports.class) THEN st
    ELSE LET name == exports.class[k].name
             convert == name \in should_be_named_exports
                            /\ ~HasName(exports.destructured, name)
             stripped == Sub(LAMBDA t, i :
                                 Hit(ReWordsB(<<"export", "class", name>>, t, i), ""),
                             "class " \o name, st.content)
         IN  Bind(IF convert
                  THEN Edited(RStrip(stripped) \o NL \o NL \o "export { " \o name
                                  \o " };" \o NL,
                              Append(st.changes, Change("Class export to Named", name)))
                  ELSE st,
                  LAMBDA next : ModernizeClasses(next, exports, k + 1))

\* modernize_exports(content, filename, keep_as_default, should_be_named)
ModernizeExports(content, filename) ==
    Bind(FindAllExports(content), LAMBDA exports :
        IF Stem(filename) \in keep_as_default_exports
        THEN KeepDefault(content, exports, Stem(filename))
        ELSE Bind(ModernizeDefaults(Edited(content, <<>>), exports, Stem(filename), 1),
                  LAMBDA st : ModernizeClasses(st, exports, 1)))

(***************************************************************************)
(* fix_imports                                                             *)
(***************************************************************************)

\* import\s*{\s*NAME\s*} at offset i: the offset after it, or -1.
ReImportBraced(name, t, i) ==
    LET a == Lit(t, Ws0(t, Lit(t, i, "import")), "{")
    IN  Lit(t, Ws0(t, Lit(t, Ws0(t, a), name)), "}")

\* ['"]PATH['"] at offset i: the offset after it, or -1.
ReQuotedPath(path, t, i) ==
    LET e == Lit(t, i + 1, path)
    IN  IF i >= 0 /\ Ch(t, i) \in Quote /\ e >= 0 /\ Ch(t, e) \in Quote THEN e + 1 ELSE -1

\* for module_name, correct_import in modern_imports.items(): ...
RECURSIVE FixToNamed(_, _, _)
FixToNamed(st, modern_imports, k) ==
    IF k > Len(modern_imports) THEN st
    ELSE LET module_name == modern_imports[k]
             Wrong(t, i) == Hit(ReWords(<<"import", module_name, "from">>, t, i), "")
         IN  Bind(IF Search(Wrong, st.content).start >= 0
                  THEN Edited(Sub(Wrong, "import { " \o module_name \o " } from", st.content),
                              Append(st.changes, Change("Import modernized", module_name)))
                  ELSE st,
                  LAMBDA next : FixToNamed(next, modern_imports, k + 1))

\* for module_name, correct_import in default_imports.items(): ...
RECURSIVE FixToDefault(_, _, _)
FixToDefault(st, default_imports, k) ==
    IF k > Len(default_imports) THEN st
    ELSE LET module_name == default_imports[k]
             Wrong(t, i) ==
                 Hit(Lit(t, Ws0(t, ReImportBraced(module_name, t, i)), "from"), "")
         IN  Bind(IF Search(Wrong, st.content).start >= 0
                  THEN Edited(Sub(Wrong, "import " \o module_name \o " from", st.content),
                              Append(st.changes,
                                     Change("Base class import fixed", module_name)))
                  ELSE st,
                  LAMBDA next : FixToDefault(next, default_imports, k + 1))

\* The elements of a sequence, each at its first occurrence.
RECURSIVE Distinct(_, _)
Distinct(xs, seen) ==
    IF xs = <<>> THEN <<>>
    ELSE IF Head(xs) \in seen THEN Distinct(Tail(xs), seen)
    ELSE <<Head(xs)>> \o Distinct(Tail(xs), seen \cup {Head(xs)})

\* imported_modules: the paths in insertion order, and the import types of each.
ImportedModules(content) ==
    LET defaults == FindIter(ReImportDefault, content, 0)
        nameds == FindIter(ReImportNamed, content, 0)
        DefaultPath(k) == defaults[k].g[2]
        NamedPath(k) == nameds[k].g[2]
    IN  [paths |-> Distinct([k \in 1..Len(defaults) |-> DefaultPath(k)]
                                \o [k \in 1..Len(nameds) |-> NamedPath(k)], {}),
         default |-> {DefaultPath(k) : k \in 1..Len(defaults)},
         named |-> {NamedPath(k) : k \in 1..Len(nameds)}]

\* for match in re.finditer(pattern, content): content = content[:match.start()]
\*     + replacement + content[match.end():]   (the replacement is a plain
\* string: its \2 is not expanded)
RECURSIVE SpliceEach(_, _, _, _)
SpliceEach(st, module_name, ms, k) ==
    IF k > Len(ms) THEN st
    ELSE SpliceEach(
             Edited(Upto(st.content, ms[k].start)
                        \o "import { " \o module_name \o " } from '\\2'"
                        \o From(st.content, ms[k].end),
                    Append(st.changes, Change("Fixed default import to named", module_name))),
             module_name, ms, k + 1)

\* The body of: for path, import_types in imported_modules.items()
FixModule(st, mods, path) ==
    LET module_name == Stem(path)
        NamedOf(t, i) ==
            Hit(ReQuotedPath(path, t,
                    Ws1(t, Lit(t, Ws1(t, ReImportBraced(module_name, t, i)), "from"))), "")
        DefaultOf(t, i) ==
            LET e == Word1(t, Ws1(t, Lit(t, i, "import")))
            IN  Hit(ReQuotedPath(path, t, Ws1(t, Lit(t, Ws1(t, e), "from"))), "")
    IN  IF module_name \in keep_as_default_exports
        THEN IF path \in mods.named /\ path \notin mods.default
             THEN Edited(Sub(NamedOf, "import " \o module_name \o " from '" \o path \o "'",
                             st.content),
                         Append(st.changes,
                                Change("Fixed named import to default", module_name)))
             ELSE st
        ELSE IF module_name \in should_be_named_exports
                /\ path \in mods.default /\ path \notin mods.named
        THEN SpliceEach(st, module_name, FindIter(DefaultOf, st.content, 0), 1)
        ELSE st

RECURSIVE FixModules(_, _, _)
FixModules(st, mods, k) ==
    IF k > Len(mods.paths) THEN st
    ELSE Bind(FixModule(st, mods, mods.paths[k]),
              LAMBDA next : FixModules(next, mods, k + 1))

\* fix_imports(content, modern_imports, default_imports, filename), the two
\* dictionaries given as the sequences of their keys in iteration order.
FixImports(content, modern_imports, default_imports) ==
    Bind(FixToNamed(Edited(content, <<>>), modern_imports, 1), LAMBDA st1 :
    Bind(FixToDefault(st1, default_imports, 1), LAMBDA st2 :
    Bind(ImportedModules(st2.content), LAMBDA mods : FixModules(st2, mods, 1))))

(***************************************************************************)
(* check_uicomponent_imports                                               *)
(***************************************************************************)

\* repr(path) of a path without quotes
Repr(path) == "'" \o Replace(Replace(path, "\\", "\\\\"), NL, "\\n") \o "'"

\* \s*}?\s+from\s+['"]([^'"]+)['"] at offset e
ReCloseFromPath(t, e) ==
    IF e >= 0 /\ Ch(t, Ws0(t, e)) = "}" THEN ReFromPath(t, Ws0(t, e) + 1)
    ELSE ReFromPath(t, e)

\* UIComponent\s+as\s+(\w+) at offset i: group 1 is the alias.
ReAlias(t, i) ==
    LET b == Ws1(t, Lit(t, Ws1(t, Lit(t, i, "UIComponent")), "as"))
        e == Word1(t, b)
    IN  Hit(e, Slice(t, b, e))

\* import\s+{?\s*UIComponent(?:\s+as\s+\w+)?\s*}?\s+from\s+['"]([^'"]+)['"]
\* (the alias is tried first, then left out): group 1 is the path.
ReUIComponentImport(t, i) ==
    LET a == Ws1(t, Lit(t, i, "import"))
        n == Ws0(t, IF Ch(t, a) = "{" THEN a + 1 ELSE a)
        aliased == ReCloseFromPath(t, ReAlias(t, n).end)
    IN  IF a < 0 THEN NoMatch
        ELSE IF aliased.end >= 0 THEN aliased
        ELSE ReCloseFromPath(t, Lit(t, n, "UIComponent"))

\* import\s+{([^}]+)}\s+from\s+['"]([^'"]*UIComponent(?:\.js)?)['"] :
\* groups <<names, path>>
ReUIComponentPathImport(t, i) ==
    LET m == ReBraces(t, Ws1(t, Lit(t, i, "import")))
        p == ReFromPath(t, m.end)
    IN  IF p.end >= 0 /\ (EndsWith(p.g, "UIComponent") \/ EndsWith(p.g, "UIComponent.js"))
        THEN Hit(p.end, <<m.g, p.g>>)
        ELSE NoMatch

\* The body of the first loop for one match m of the scan of text.
FixUIImport(st, text, m) ==
    LET import_statement == Slice(text, m.start, m.end)
        alias_match == Search(ReAlias, import_statement)
        new_import ==
            IF Contains(import_statement, "as") /\ alias_match.start >= 0
            THEN "import " \o alias_match.g \o " from " \o Repr(m.g)
            ELSE "import UIComponent from " \o Repr(m.g)
    IN  IF Contains(import_statement, "{") /\ Contains(import_statement, "}")
        THEN Edited(Replace(st.content, import_statement, new_import),
                    Append(st.changes,
                           Change("Fixed UIComponent import to use default import",
                                  "UIComponent")))
        ELSE st

\* The body of the second loop for one match m of the scan of text.
FixUIPathImport(st, text, m) ==
    IF Strip(m.g[1]) = "UIComponent"
    THEN Edited(Replace(st.content, Slice(text, m.start, m.end),
                        "import UIComponent from " \o Repr(m.g[2])),
                Append(st.changes,
                       Change("Fixed UIComponent path import to use default import",
                              "UIComponent")))
    ELSE st

\* for match in matches: st = Body(st, text, match)
RECURSIVE ForEachMatch(_, _, _, _, _)
ForEachMatch(Body(_, _, _), st, text, ms, k) ==
    IF k > Len(ms) THEN st
    ELSE Bind(Body(st, text, ms[k]),
              LAMBDA next : ForEachMatch(Body, next, text, ms, k + 1))

\* check_uicomponent_imports(content, filename)
CheckUIComponentImports(content, filename) ==
    IF PathName(filename) = "UIComponent.js" THEN Edited(content, <<>>)
    ELSE Bind(ForEachMatch(FixUIImport, Edited(content, <<>>), content,
                           FindIter(ReUIComponentImport, content, 0), 1),
              LAMBDA st :
                  ForEachMatch(FixUIPathImport, st, st.content,
                               FindIter(ReUIComponentPathImport, st.content, 0), 1))

(***************************************************************************)
(* fix_import_export_mismatches                                            *)
(***************************************************************************)

\* re.sub(r'export\s+default\s+<kw>\s+' + name, 'export <kw> name', content)
DefaultKwToNamed(content, kw, name) ==
    Sub(LAMBDA t, i : Hit(ReWords(<<"export", "default", kw, name>>, t, i), ""),
        "export " \o kw \o " " \o name, content)

\* for name, start, end in exports.get('default', []): ...
RECURSIVE ConvertDefaults(_, _, _)
ConvertDefaults(st, exports, k) ==
    IF k > Len(exports.default) THEN st
    ELSE LET name == exports.default[k].name
         IN  Bind(IF name = "_anonymous_" \/ HasName(exports.destructured, name) THEN st
                  ELSE Bind(DefaultToNamed(st.content, name), LAMBDA c1 :
                       Bind(DefaultKwToNamed(c1, "class", name), LAMBDA c2 :
                            Edited(DefaultKwToNamed(c2, "function", name),
                                   Append(st.changes,
                                          Change("Converted default export to named export",
                                                 name))))),
                  LAMBDA next : ConvertDefaults(next, exports, k + 1))

\* re.sub(r'export\s+<kw>\s+' + name, 'export default <kw> name', content)
NamedKwToDefault(content, kw, name) ==
    Sub(LAMBDA t, i : Hit(ReWords(<<"export", kw, name>>, t, i), ""),
        "export default " \o kw \o " " \o name, content)

\* The branch for the expected style "default".
ConvertToDefault(content, exports, base_name) ==
    LET HasExport(kw) ==
            Search(LAMBDA t, i : Hit(ReWords(<<"export", kw, base_name>>, t, i), ""),
                   content).start >= 0
    IN  IF ~HasName(exports.class \o exports.function \o exports.destructured, base_name)
           \/ Len(exports.default) > 0
        THEN Edited(content, <<>>)
        ELSE IF HasExport("class")
        THEN Edited(NamedKwToDefault(content, "class", base_name),
                    <<Change("Converted named class export to default", base_name)>>)
        ELSE IF HasExport("function")
        THEN Edited(NamedKwToDefault(content, "function", base_name),
                    <<Change("Converted named function export to default", base_name)>>)
        ELSE IF HasName(exports.destructured, base_name)
        THEN Bind(RemoveNamedExport(content, base_name), LAMBDA st :
                 Edited(RStrip(st.content) \o NL \o NL \o "export default " \o base_name
                            \o ";" \o NL,
                        Append(st.changes, Change("Added default export", base_name))))
        ELSE Edited(content, <<>>)

\* fix_import_export_mismatches(content, file_path, export_style_map)
FixImportExportMismatches(content, file_path, style_map) ==
    IF file_path \notin DOMAIN style_map THEN Edited(content, <<>>)
    ELSE Bind(FindAllExports(content), LAMBDA exports :
             IF style_map[file_path] = "named"
             THEN ConvertDefaults(Edited(content, <<>>), exports, 1)
             ELSE ConvertToDefault(content, exports, Stem(file_path)))

(***************************************************************************)
(* main, run without --fix-duplicates-only and --skip-ui-component.        *)
(*                                                                         *)
(* One run is the UIComponent.js pre-pass, the analysis of the imports,    *)
(* and the loop over the files; the loop's body is one step per pass, on   *)
(* the loop's variables content, original_content and all_changes.  The    *)
(* program may be run again on the tree the run has left.                  *)
(***************************************************************************)

\* re.search(r'export\s+default\s+', content) is not None
HasDefaultExport(content) ==
    Search(LAMBDA t, i : Hit(Ws1(t, ReWords(<<"export", "default">>, t, i)), ""),
           content).start >= 0

\* The pre-pass's edit of UIComponent.js: a default export is added when the
\* text has none.
PrePass(content) ==
    IF HasDefaultExport(content) THEN Edited(content, <<>>)
    ELSE IF Contains(content, "class UIComponent")
            /\ ~Contains(content, "export class UIComponent")
    THEN Edited(RStrip(content) \o NL \o NL \o "export default UIComponent;" \o NL,
                <<Change("Added default export", "UIComponent")>>)
    ELSE IF Contains(content, "export class UIComponent")
    THEN Edited(Replace(content, "export class UIComponent",
                        "export default class UIComponent"),
                <<Change("Converted to default export", "UIComponent")>>)
    ELSE Edited(content, <<>>)

\* if ';;' in content: content = re.sub(r';;+', ';', content)
FixSemicolons(content) ==
    IF Contains(content, ";;")
    THEN Edited(CollapseSemis(content), <<Change("Double semicolons fixed", "")>>)
    ELSE Edited(content, <<>>)

\* The sequences that list each element of a finite set once.
Perms(S) ==
    {q \in [1..Cardinality(S) -> S] : \A i, j \in 1..Cardinality(S) : q[i] = q[j] => i = j}

\* The keys of modern_imports and of keep_default_imports whose wrong import
\* stands in the text; the loops of fix_imports skip every other key.  The
\* dictionaries are built from sets of strings, which Python iterates in an
\* order it does not fix.
ModernMatching(content) ==
    {n \in should_be_named_exports :
        Search(LAMBDA t, i : Hit(ReWords(<<"import", n, "from">>, t, i), ""),
               content).start >= 0}

DefaultMatching(content) ==
    {n \in keep_as_default_exports :
        Search(LAMBDA t, i : Hit(Lit(t, Ws0(t, ReImportBraced(n, t, i)), "from"), ""),
               content).start >= 0}

EmptyMap == [p \in {} |-> ""]

NoStats == [files_scanned |-> 0, files_fixed |-> 0, duplicates_fixed |-> 0,
            exports_modernized |-> 0, imports_fixed |-> 0,
            uicomponent_imports_fixed |-> 0, import_export_mismatches_fixed |-> 0,
            double_semicolon_fixed |-> 0]

(***************************************************************************)
(* modern_import_export_fixer.py: the body of main's loop over the exports *)
(* (STEP 2) and of its loop over the imports (STEP 3).                     *)
(***************************************************************************)

\* export default (\w+);?
ReExportDefaultPlain(t, i) ==
    LET b == Lit(t, i, "export default ")
        e == Word1(t, b)
    IN  Hit(IF e >= 0 /\ Ch(t, e) = ";" THEN e + 1 ELSE e, Slice(t, b, e))

\* export class (\w+)
ReExportClassPlain(t, i) ==
    LET b == Lit(t, i, "export class ")
        e == Word1(t, b)
    IN  Hit(e, Slice(t, b, e))

\* export\s+\{[^}]+\}|export\s+class\s+\w+|export\s+default\s+\w+
ReExportStatement(t, i) ==
    LET a == Ws1(t, Lit(t, i, "export"))
        list == ReBraces(t, a).end
        class == Word1(t, Ws1(t, Lit(t, a, "class")))
        default == Word1(t, Ws1(t, Lit(t, a, "default")))
    IN  Hit(IF list >= 0 THEN list ELSE IF class >= 0 THEN class ELSE default, "")

\* The groups of a sequence of matches, as a set.
Groups(ms) == {ms[k].g : k \in 1..Len(ms)}

\* existing_named_exports
ExistingNamedExports(content) ==
    LET lists == FindIter(ReExportList, content, 0)
    IN  Groups(FindIter(ReExportConst, content, 0))
            \cup Groups(FindIter(ReExportClass, content, 0))
            \cup Groups(FindIter(ReExportFunction, content, 0))
            \cup UNION {LET names == SplitComma(lists[k].g)
                         IN  {Strip(names[j]) : j \in 1..Len(names)} :
                            k \in 1..Len(lists)}

\* What the loop's body has made of a file so far: the text, the changes,
\* and whether an exception was raised.
Fixed(content, changes, raised) ==
    [content |-> content, changes |-> changes, raised |-> raised]

\* Fix 1: convert default exports to named exports for components/classes.
FixDefaultExport(st, filename, existing_named_exports) ==
    Bind(Search(ReExportDefaultPlain, st.content), LAMBDA default_export_match :
    LET class_name == default_export_match.g
    IN  IF /\ default_export_match.start >= 0
           /\ (class_name \in should_be_named_exports \/ class_name = filename)
           /\ class_name \notin existing_named_exports
        THEN Fixed(Sub(LAMBDA t, i :
                           LET e == Lit(t, i, "export default " \o class_name)
                           IN  Hit(IF e >= 0 /\ Ch(t, e) = ";" THEN e + 1 ELSE e, ""),
                       "export { " \o class_name \o " };", st.content),
                   Append(st.changes, Change("Default to Named export", class_name)),
                   FALSE)
        ELSE st)

\* Fix 2: fix export class declarations.
FixExportClass(st) ==
    Bind(Search(ReExportClassPlain, st.content), LAMBDA export_class_match :
    LET class_name == export_class_match.g
    IN  IF /\ export_class_match.start >= 0
           /\ class_name \in should_be_named_exports
           /\ ~Contains(st.content, "export { " \o class_name \o " }")
        THEN Fixed(Replace(st.content, "export class " \o class_name,
                           "class " \o class_name)
                       \o NL \o NL \o "export { " \o class_name \o " };",
                   Append(st.changes, Change("Class export to Named", class_name)),
                   FALSE)
        ELSE st)

\* The names one export statement adds to exported_names; raised when
\* re.search(...) finds nothing and .group(1) is called on None.
NamesOfStatement(stmt) ==
    IF Contains(stmt, "export class")
    THEN LET m == Search(ReExportClassPlain, stmt)
         IN  [names |-> IF m.start >= 0 THEN <<m.g>> ELSE <<>>, raised |-> m.start < 0]
    ELSE IF Contains(stmt, "export {")
    THEN LET inner == Split(Split(stmt, "{")[2], "}")[1]
         IN  Bind(FindIter(ReWord, inner, 0), LAMBDA ws :
                  [names |-> [k \in 1..Len(ws) |-> Slice(inner, ws[k].start, ws[k].end)],
                   raised |-> FALSE])
    ELSE IF Contains(stmt, "export default")
    THEN LET m == Search(LAMBDA t, i :
                             LET b == Lit(t, i, "export default ")
                                 e == Word1(t, b)
                             IN  Hit(e, Slice(t, b, e)),
                         stmt)
         IN  [names |-> IF m.start >= 0 THEN <<m.g>> ELSE <<>>, raised |-> m.start < 0]
    ELSE [names |-> <<>>, raised |-> FALSE]

\* exported_names, over the export statements of the text in order (empty
\* when the text has one statement or none).
ExportedNames(content) ==
    Bind(FindIter(ReExportStatement, content, 0), LAMBDA ms :
    Bind([k \in 1..Len(ms) |->
             Bind(Slice(content, ms[k].start, ms[k].end), NamesOfStatement)],
         LAMBDA each :
             IF Len(ms) <= 1 THEN [names |-> <<>>, raised |-> FALSE]
             ELSE [names |-> Flatten([k \in 1..Len(ms) |-> each[k].names]),
                   raised |-> \E k \in 1..Len(ms) : each[k].raised]))

\* set(duplicates): the names that stand twice or more in exported_names.
DuplicateNames(exported_names) ==
    {n \in {exported_names[k] : k \in 1..Len(exported_names)} :
        Cardinality({k \in 1..Len(exported_names) : exported_names[k] = n}) > 1}

\* for duplicate_name in set(duplicates): ..., the set iterated in the order
\* given.
RECURSIVE RemoveDuplicateStatements(_, _, _)
RemoveDuplicateStatements(st, order, k) ==
    IF k > Len(order) THEN st
    ELSE LET duplicate_pattern == "export { " \o order[k] \o " };"
         IN  Bind(IF /\ Contains(st.content, duplicate_pattern)
                     /\ Contains(st.content, "export class " \o order[k])
                  THEN Fixed(Replace(st.content, duplicate_pattern, ""),
                             Append(st.changes,
                                    Change("Removed duplicate export", order[k])),
                             FALSE)
                  ELSE st,
                  LAMBDA next : RemoveDuplicateStatements(next, order, k + 1))

\* Fix 4: remove double semicolons.
FixDoubleSemicolon(st) ==
    IF Contains(st.content, ";;")
    THEN Fixed(Replace(st.content, ";;", ";"),
               Append(st.changes, Change("Double semicolon fixed", "")), FALSE)
    ELSE st

\* Fix 1 and Fix 2 on the text read from a file.
FixExports(content, filename) ==
    Bind(FixDefaultExport(Fixed(content, <<>>, FALSE), filename,
                          ExistingNamedExports(content)),
         FixExportClass)

\* Fix 3 and Fix 4, the duplicated names taken in the order given.
FixDuplicatesAndSemicolons(st, order) ==
    Bind(st, LAMBDA read :
        IF ExportedNames(read.content).raised
        THEN Fixed(read.content, read.changes, TRUE)
        ELSE Bind(RemoveDuplicateStatements(read, order, 1), FixDoubleSemicolon))

\* The keys of modern_import_fixes and of keep_default_imports, in the order
\* the dictionaries are written.
ModernImportFixes == <<
    "CONFIG", "UIConfig", "AssetManager", "TargetSystem", "WeatherSystem",
    "EnvironmentSystem", "MenuSystem", "ScreenManager", "MissionBriefing",
    "RoundSummary", "ScreenEffects", "HitIndicator", "Feature", "Sky",
    "EnhancedSky", "Enemy", "Player", "Level", "Weapon", "Bullet", "Blaster",
    "Shotgun", "AssaultRifle", "HealthPack", "Item", "WeaponItem", "Projectile",
    "CombatSystem", "HUDSystem", "NotificationSystem", "ProgressionSystem",
    "MovementSystem", "DOMFactory", "EventManager", "InputHandler" >>

KeepDefaultImports == <<"UIComponent", "World">>

\* for module_name, correct_import in fixes.items(): if wrong_import in
\* content: content = content.replace(wrong_import, correct_import)
RECURSIVE ReplaceImports(_, _, _, _, _, _)
ReplaceImports(st, names, k, Wrong(_), Correct(_), msg) ==
    IF k > Len(names) THEN st
    ELSE Bind(IF Contains(st.content, Wrong(names[k]))
              THEN Fixed(Replace(st.content, Wrong(names[k]), Correct(names[k])),
                         Append(st.changes, Change(msg, names[k])), FALSE)
              ELSE st,
              LAMBDA next : ReplaceImports(next, names, k + 1, Wrong, Correct, msg))

\* The body of the loop of STEP 3 on the text read from a file.
ModernizeImports(content) ==
    LET Default(n) == "import " \o n \o " from"
        Named(n) == "import { " \o n \o " } from"
    IN  Bind(ReplaceImports(Fixed(content, <<>>, FALSE), ModernImportFixes, 1,
                            Default, Named, "Import modernized"),
             LAMBDA st : ReplaceImports(st, KeepDefaultImports, 1, Named, Default,
                                        "Base class import fixed"))

\* stats of modern_import_export_fixer.py
NoModernStats == [files_scanned |-> 0, files_fixed |-> 0, exports_modernized |-> 0,
                  imports_fixed |-> 0, double_semicolon_fixed |-> 0]

\* The number of consecutive runs of the program that are followed.
MaxRuns == 2

\* The source trees the runs start from.
Trees == {
    "Player.js" :> "class Player {}\nexport default Player;\n"
        @@ "a.js" :> "import Player from './Player';\n",
    "Player.js" :> "class Player {}\n\nexport { Player };\n"
        @@ "a.js" :> "import { Player } from './Player';\n",
    "Player.js" :> "export class Player {}\n"
        @@ "a.js" :> "import P from './Player';\n",
    "World.js" :> "export default class World {}\n"
        @@ "a.js" :> "import { World } from './World';\n",
    "World.js" :> "class World {}\nexport { World };\n"
        @@ "a.js" :> "import World from './World';\n",
    "Foo.js" :> "class Foo {}\n\nexport default Foo;\n"
        @@ "a.js" :> "import Foo from './Foo';\n",
    "m.js" :> "export default function() {}\n"
        @@ "a.js" :> "import { x } from './m';\n",
    "m.js" :> "export default M;\n"
        @@ "a.js" :> "import { X } from './m';\n",
    "m.js" :> "export default M;\n"
        @@ "a.js" :> "import { X } from 'm.js';\n",
    "m.js" :> "export default M;\n"
        @@ "a.js" :> "import { X } from './m';\n"
        @@ "b.js" :> "import { X } from './m';\n"
        @@ "c.js" :> "import M from './m';\n",
    "m.js" :> "export default A;\nexport default B;\nexport const A = 1;\nexport const B = 2;\n",
    "m.js" :> "export const A = 1; export default A;\n",
    "m.js" :> "export default A;\nexport const A = 1;\n",
    "m.js" :> "export const A = 1;\nexport default A;\n",
    "m.js" :> "export {A, A};",
    "m.js" :> "export { A, B };\nexport { A };\n",
    "m.js" :> "export const B = 1;\nexport { A, B, C };\n",
    "m.js" :> "export const B = 1;\nexport { B };\n",
    "m.js" :> "export { a, b, };\n",
    "m.js" :> "export class m {}\nexport default { m };\n"
        @@ "a.js" :> "import m from './m';\n",
    "m.js" :> "export { X as Y };\nimport { P as Q } from './p';\n",
    "m.js" :> "export function A() {}\nexport function m() {}\nexport class A {}\nexport class m {}\n"
        @@ "a.js" :> "import m from './m';\n",
    "m.js" :> "export class A {}\nexport { A, B };\nexport default A;\n",
    "m.js" :> "for (;;) {}\n",
    "a.js" :> "import { Other } from './UIComponent';\n",
    "a.js" :> "import Player from './Player';\nimport Enemy from './Enemy';\n",
    "UIComponent.js" :> "class UIComponent {}\n",
    "UIComponent.js" :> "class UIComponent {}\nx;;\n",
    "ui/UIComponent.js" :> "export class UIComponent {}\n"
        @@ "a.js" :> "import { UIComponent } from './ui/UIComponent';\n",
    "UIComponent.js" :> "import { x } from './m';\nexport default class UIComponent {}\n"
        @@ "m.js" :> "export const x = 1;\n",
    "a.js" :> "import { X } from './m';\nimport { Y } from './m';\nimport { Z } from './m';\n"
        @@ "b.js" :> "import M from './m';\nimport N from './m';\nimport Q from './q';\n",
    "a.js" :> "import { X } from './m';\nimport M from './m';\n",
    "p.js" :> "export default Player;\nclass Player {}" }

VARIABLES
    fs,                \* the files on the disk: path -> text
    js_files,          \* the paths, in the order rglob found them
    dry_run,           \* args.dry_run
    pc,                \* where main stands
    idx,               \* the loop's position in js_files
    import_styles,     \* the tally: module path -> counts
    export_style_map,  \* the style decided for each tallied module path
    original_content,  \* the loop's variables for the current file
    content,
    all_changes,
    stats,
    run,               \* the number of this run
    start,             \* the files on the disk when this run began
    writes,            \* path -> the number of times this run has written it
    final,             \* path -> the final text this run computed for it
    changes,           \* path -> the changes this run recorded for it
    prev,              \* the previous runs: dry_run, start, final, changes of each
    io,                \* the paths open() fails on, to read and to write; args.verbose
    errors             \* the error lines this run has printed

vars == <<fs, js_files, dry_run, pc, idx, import_styles, export_style_map,
          original_content, content, all_changes, stats, run, start, writes,
          final, changes, prev, io, errors>>

\* What a run starts with, on the disk it finds.
Begin(disk, files) ==
    /\ pc' = "prepass"
    /\ idx' = 1
    /\ import_styles' = EmptyMap
    /\ export_style_map' = EmptyMap
    /\ original_content' = ""
    /\ content' = ""
    /\ all_changes' = <<>>
    /\ stats' = [NoStats EXCEPT !.files_scanned = Len(files)]
    /\ start' = disk
    /\ writes' = [f \in DOMAIN disk |-> 0]
    /\ final' = EmptyMap
    /\ changes' = EmptyMap
    /\ errors' = <<>>

\* Every open() succeeds; the program runs without --verbose.
NoFailures == [unreadable |-> {}, unwritable |-> {}, verbose |-> FALSE]

\* The error line printed for a file, under --verbose only.
Printed(msg, file) == IF io.verbose THEN <<[msg |-> msg, file |-> file]>> ELSE <<>>

Init ==
    \E tree \in Trees : \E files \in Perms(DOMAIN tree), d \in BOOLEAN :
        /\ fs = tree
        /\ js_files = files
        /\ dry_run = d
        /\ pc = "prepass"
        /\ idx = 1
        /\ import_styles = EmptyMap
        /\ export_style_map = EmptyMap
        /\ original_content = ""
        /\ content = ""
        /\ all_changes = <<>>
        /\ stats = [NoStats EXCEPT !.files_scanned = Len(files)]
        /\ run = 1
        /\ start = tree
        /\ writes = [f \in DOMAIN tree |-> 0]
        /\ final = EmptyMap
        /\ changes = EmptyMap
        /\ prev = <<>>
        /\ io = NoFailures
        /\ errors = <<>>

\* The file the loop is at.
js_file == js_files[idx]

\* The first file named UIComponent.js, or "" when there is none.
ui_component_file ==
    LET at == {k \in 1..Len(js_files) : PathName(js_files[k]) = "UIComponent.js"}
    IN  IF at = {} THEN "" ELSE js_files[Least(at)]

\* Special handling for UIComponent.js: it is given a default export, and
\* written at once unless the run is dry.
UIComponentPrePass ==
    /\ pc = "prepass"
    /\ pc' = "analyze"
    /\ LET unread == ui_component_file \in io.unreadable
           st == IF ui_component_file = "" \/ unread THEN Edited("", <<>>)
                 ELSE PrePass(fs[ui_component_file])
           try == ui_component_file # "" /\ st.changes # <<>> /\ ~dry_run
           write == try /\ ui_component_file \notin io.unwritable
       IN  /\ fs' = IF write THEN [fs EXCEPT ![ui_component_file] = st.content] ELSE fs
           /\ writes' = IF write THEN [writes EXCEPT ![ui_component_file] = @ + 1]
                        ELSE writes
           /\ stats' = IF write THEN [stats EXCEPT !.files_fixed = @ + 1] ELSE stats
           /\ errors' = IF unread \/ (try /\ ~write)
                        THEN errors \o Printed("Error processing UIComponent.js",
                                               ui_component_file)
                        ELSE errors
    /\ UNCHANGED <<js_files, io, dry_run, idx, import_styles, export_style_map,
                   original_content, content, all_changes, run, start, final,
                   changes, prev>>

\* export_style_map = analyze_import_export_relationships(js_files)
Analyze ==
    /\ pc = "analyze"
    /\ pc' = IF js_files = <<>> THEN "done" ELSE "dedup"
    /\ import_styles' = ImportStyles(SelectSeq(js_files, LAMBDA f : f \notin io.unreadable),
                                     fs)
    /\ export_style_map' = ExportStyleMap(import_styles')
    /\ errors' = errors \o Flatten([k \in 1..Len(js_files) |->
                    IF js_files[k] \in io.unreadable
                    THEN Printed("Error analyzing imports in", js_files[k])
                    ELSE <<>>])
    /\ UNCHANGED <<fs, js_files, io, dry_run, idx, original_content, content,
                   all_changes, stats, run, start, writes, final, changes, prev>>

\* One pass of the loop's body: the text and the changes it returns are
\* taken over, the changes are counted.
Pass(st, counter, next) ==
    /\ pc' = next
    /\ content' = st.content
    /\ all_changes' = all_changes \o st.changes
    /\ stats' = [stats EXCEPT ![counter] = @ + Len(st.changes)]
    /\ UNCHANGED <<fs, js_files, io, errors, dry_run, idx, import_styles,
                   export_style_map, run, start, writes, final, changes, prev>>

\* The file is read, and the loop moves on to the next file if that fails;
\* step 1: remove_duplicate_exports.
RemoveDuplicates ==
    /\ pc = "dedup"
    /\ IF js_file \in io.unreadable
       THEN /\ errors' = errors \o Printed("Error reading", js_file)
            /\ idx' = idx + 1
            /\ pc' = IF idx = Len(js_files) THEN "done" ELSE "dedup"
            /\ UNCHANGED <<original_content, all_changes, content, stats>>
       ELSE /\ original_content' = fs[js_file]
            /\ all_changes' = RemoveDuplicateExports(fs[js_file]).changes
            /\ content' = RemoveDuplicateExports(fs[js_file]).content
            /\ pc' = "modernize"
            /\ stats' = [stats EXCEPT !.duplicates_fixed = @ + Len(all_changes')]
            /\ UNCHANGED <<idx, errors>>
    /\ UNCHANGED <<fs, js_files, io, dry_run, import_styles, export_style_map,
                   run, start, writes, final, changes, prev>>

\* Step 2: modernize_exports.
Modernize ==
    /\ pc = "modernize"
    /\ Pass(ModernizeExports(content, PathName(js_file)), "exports_modernized", "imports")
    /\ UNCHANGED original_content

\* Step 3: fix_imports.
FixImportStatements ==
    /\ pc = "imports"
    /\ \E modern_imports \in Perms(ModernMatching(content)),
          keep_default_imports \in Perms(DefaultMatching(content)) :
           Pass(FixImports(content, modern_imports, keep_default_imports),
                "imports_fixed", "uicomponent")
    /\ UNCHANGED original_content

\* Step 4: check_uicomponent_imports.
CheckUIComponent ==
    /\ pc = "uicomponent"
    /\ Pass(CheckUIComponentImports(content, PathName(js_file)),
            "uicomponent_imports_fixed", "mismatch")
    /\ UNCHANGED original_content

\* Step 5: fix_import_export_mismatches.
FixMismatches ==
    /\ pc = "mismatch"
    /\ Pass(FixImportExportMismatches(content, js_file, export_style_map),
            "import_export_mismatches_fixed", "semicolons")
    /\ UNCHANGED original_content

\* Always clean up double semicolons.
CleanSemicolons ==
    /\ pc = "semicolons"
    /\ Pass(FixSemicolons(content), "double_semicolon_fixed", "write")
    /\ UNCHANGED original_content

\* Write changes if any; the loop moves on to the next file, without
\* counting this one if writing it fails.
WriteFile ==
    /\ pc = "write"
    /\ LET changed == content # original_content
           try == changed /\ ~dry_run
           write == try /\ js_file \notin io.unwritable
       IN  /\ fs' = IF write THEN [fs EXCEPT ![js_file] = content] ELSE fs
           /\ writes' = IF write THEN [writes EXCEPT ![js_file] = @ + 1] ELSE writes
           /\ stats' = IF changed /\ (write \/ dry_run)
                       THEN [stats EXCEPT !.files_fixed = @ + 1] ELSE stats
           /\ errors' = IF try /\ ~write THEN errors \o Printed("Error writing", js_file)
                        ELSE errors
    /\ final' = (js_file :> content) @@ final
    /\ changes' = (js_file :> all_changes) @@ changes
    /\ idx' = idx + 1
    /\ pc' = IF idx = Len(js_files) THEN "done" ELSE "dedup"
    /\ UNCHANGED <<js_files, io, dry_run, import_styles, export_style_map,
                   original_content, content, all_changes, run, start, prev>>

\* The program is run again, dry or not, on the tree as it is now.
RunAgain ==
    /\ pc = "done"
    /\ run < MaxRuns
    /\ run' = run + 1
    /\ prev' = Append(prev, [dry_run |-> dry_run, start |-> start, final |-> final,
                             changes |-> changes])
    /\ dry_run' \in BOOLEAN
    /\ Begin(fs, js_files)
    /\ UNCHANGED <<fs, js_files, io>>

Next ==
    \/ UIComponentPrePass
    \/ Analyze
    \/ RemoveDuplicates
    \/ Modernize
    \/ FixImportStatements
    \/ CheckUIComponent
    \/ FixMismatches
    \/ CleanSemicolons
    \/ WriteFile
    \/ RunAgain

Spec == Init /\ [][Next]_vars

(***************************************************************************)
(* fix_imports.py: main on a source tree where open() fails on some files. *)
(***************************************************************************)

IOTrees == {
    "Player.js" :> "class Player {}\nexport default Player;\n"
        @@ "a.js" :> "import Player from './Player';\nx;;\n",
    "UIComponent.js" :> "class UIComponent {}\n"
        @@ "a.js" :> "import { Other } from './UIComponent';\n" }

InitIO ==
    \E tree \in IOTrees : \E files \in Perms(DOMAIN tree), d, v \in BOOLEAN :
        \E unreadable, unwritable \in SUBSET DOMAIN tree :
            /\ fs = tree
            /\ js_files = files
            /\ dry_run = d
            /\ pc = "prepass"
            /\ idx = 1
            /\ import_styles = EmptyMap
            /\ export_style_map = EmptyMap
            /\ original_content = ""
            /\ content = ""
            /\ all_changes = <<>>
            /\ stats = [NoStats EXCEPT !.files_scanned = Len(files)]
            /\ run = 1
            /\ start = tree
            /\ writes = [f \in DOMAIN tree |-> 0]
            /\ final = EmptyMap
            /\ changes = EmptyMap
            /\ prev = <<>>
            /\ io = [unreadable |-> unreadable, unwritable |-> unwritable,
                     verbose |-> v]
            /\ errors = <<>>

SpecIO == InitIO /\ [][Next]_vars

(***************************************************************************)
(* fix_imports.py: main run twice on the same tree, the files found in     *)
(* another order the second time.                                          *)
(***************************************************************************)

OrderTrees == {
    "UIComponent.js" :> "class UIComponent {}\n"
        @@ "ui/UIComponent.js" :> "class UIComponent {}\n",
    "Player.js" :> "class Player {}\nexport default Player;\n"
        @@ "a.js" :> "import Player from './Player';\n",
    "m.js" :> "export default M;\n"
        @@ "a.js" :> "import { X } from './m';\n"
        @@ "c.js" :> "import M from './m';\n" }

InitOrder ==
    \E tree \in OrderTrees : \E files \in Perms(DOMAIN tree), d \in BOOLEAN :
        /\ fs = tree
        /\ js_files = files
        /\ dry_run = d
        /\ pc = "prepass"
        /\ idx = 1
        /\ import_styles = EmptyMap
        /\ export_style_map = EmptyMap
        /\ original_content = ""
        /\ content = ""
        /\ all_changes = <<>>
        /\ stats = [NoStats EXCEPT !.files_scanned = Len(files)]
        /\ run = 1
        /\ start = tree
        /\ writes = [f \in DOMAIN tree |-> 0]
        /\ final = EmptyMap
        /\ changes = EmptyMap
        /\ prev = <<>>
        /\ io = NoFailures
        /\ errors = <<>>

\* The program is run again, with the same options, on the tree the run
\* before started with; rglob yields the files in any order.
RunReordered ==
    /\ pc = "done"
    /\ run < MaxRuns
    /\ run' = run + 1
    /\ prev' = Append(prev, [dry_run |-> dry_run, start |-> start, final |-> final,
                             changes |-> changes])
    /\ fs' = start
    /\ js_files' \in Perms(DOMAIN start)
    /\ Begin(start, js_files')
    /\ UNCHANGED <<dry_run, io>>

NextOrder ==
    \/ UIComponentPrePass
    \/ Analyze
    \/ RemoveDuplicates
    \/ Modernize
    \/ FixImportStatements
    \/ CheckUIComponent
    \/ FixMismatches
    \/ CleanSemicolons
    \/ WriteFile
    \/ RunReordered

SpecOrder == InitOrder /\ [][NextOrder]_vars

(***************************************************************************)
(* modern_import_export_fixer.py: main, run once on a source tree.         *)
(***************************************************************************)

ModernTrees == {
    "Player.js" :> "class Player {}\nexport default Player;\n"
        @@ "a.js" :> "import Player from './Player';\n",
    "Player.js" :> "export class Player {}\n"
        @@ "a.js" :> "import P from './Player';\n",
    "World.js" :> "export default class World {}\nx;;\n"
        @@ "a.js" :> "import { World } from './World';\n",
    "Foo.js" :> "class Foo {}\n\nexport default Foo;;\n"
        @@ "a.js" :> "import Foo from './Foo';\nimport Enemy from './Enemy';\n",
    "m.js" :> "export class A {}\nexport class B {}\nexport { A };\nexport { B };\n"
        @@ "a.js" :> "x;;;\n",
    "m.js" :> "export const a = 1;\nexport { a };\nexport default  a;\n"
        @@ "a.js" :> "for (;;) {}\n",
    "Enemy.js" :> "export class Enemy {}\n\nexport { Enemy };\n"
        @@ "b.js" :> "x;;;;\n" }

\* The number of changes with one of the messages given.
Tally(chs, msgs) == Len(SelectSeq(chs, LAMBDA c : c.msg \in msgs))

InitModern ==
    \E tree \in ModernTrees : \E files \in Perms(DOMAIN tree), d \in BOOLEAN :
        /\ fs = tree
        /\ js_files = files
        /\ dry_run = d
        /\ pc = "exports"
        /\ idx = 1
        /\ import_styles = EmptyMap
        /\ export_style_map = EmptyMap
        /\ original_content = ""
        /\ content = ""
        /\ all_changes = <<>>
        /\ stats = [NoModernStats EXCEPT !.files_scanned = Len(files)]
        /\ run = 1
        /\ start = tree
        /\ writes = [f \in DOMAIN tree |-> 0]
        /\ final = EmptyMap
        /\ changes = EmptyMap
        /\ prev = <<>>
        /\ io = NoFailures
        /\ errors = <<>>

\* STEP 2 on one file: the file is skipped when its stem is to stay a
\* default export; otherwise Fix 1 to Fix 4 are applied and the text is
\* written if it has changed.  An exception of Fix 3 ends the program.
ModernExportsStep ==
    /\ pc = "exports"
    /\ LET filename == Stem(js_file)
           skipped == filename \in keep_as_default_exports
       IN  \E fixed \in {FixExports(fs[js_file], filename)} :
           \E order \in Perms(DuplicateNames(ExportedNames(fixed.content).names)) :
           \E st \in {IF skipped THEN Fixed(fs[js_file], <<>>, FALSE)
                      ELSE FixDuplicatesAndSemicolons(fixed, order)} :
             LET changed == st.content # fs[js_file]
                 write == changed /\ ~dry_run /\ ~st.raised
             IN  /\ original_content' = fs[js_file]
                 /\ content' = st.content
                 /\ all_changes' = st.changes
                 /\ fs' = IF write THEN [fs EXCEPT ![js_file] = st.content] ELSE fs
                 /\ writes' = IF write THEN [writes EXCEPT ![js_file] = @ + 1]
                              ELSE writes
                 /\ stats' = [stats EXCEPT
                        !.exports_modernized = @ + Tally(st.changes,
                            {"Default to Named export", "Class export to Named",
                             "Removed duplicate export"}),
                        !.double_semicolon_fixed = @ + Tally(st.changes,
                            {"Double semicolon fixed"}),
                        !.files_fixed = IF changed /\ ~st.raised THEN @ + 1 ELSE @]
                 /\ final' = IF skipped \/ st.raised THEN final
                             ELSE (js_file :> st.content) @@ final
                 /\ changes' = IF skipped \/ st.raised THEN changes
                               ELSE (js_file :> st.changes) @@ changes
                 /\ pc' = IF st.raised THEN "aborted"
                          ELSE IF idx = Len(js_files) THEN "imports" ELSE "exports"
                 /\ idx' = IF st.raised THEN idx
                           ELSE IF idx = Len(js_files) THEN 1 ELSE idx + 1
    /\ UNCHANGED <<js_files, io, errors, dry_run, import_styles, export_style_map,
                   run, start, prev>>

\* STEP 3 on one file: the imports are rewritten and the text is written if
\* it has changed.
ModernImportsStep ==
    /\ pc = "imports"
    /\ \E st \in {ModernizeImports(fs[js_file])} :
       LET changed == st.content # fs[js_file]
           write == changed /\ ~dry_run
       IN  /\ original_content' = fs[js_file]
           /\ content' = st.content
           /\ all_changes' = st.changes
           /\ fs' = IF write THEN [fs EXCEPT ![js_file] = st.content] ELSE fs
           /\ writes' = IF write THEN [writes EXCEPT ![js_file] = @ + 1] ELSE writes
           /\ stats' = [stats EXCEPT !.imports_fixed = @ + Len(st.changes)]
    /\ pc' = IF idx = Len(js_files) THEN "done" ELSE "imports"
    /\ idx' = idx + 1
    /\ UNCHANGED <<js_files, io, errors, dry_run, import_styles, export_style_map,
                   run, start, final, changes, prev>>

NextModern ==
    \/ ModernExportsStep
    \/ ModernImportsStep

SpecModern == InitModern /\ [][NextModern]_vars

(***************************************************************************)
(* fix.py: main, run once on a source tree where open() fails on some      *)
(* files.                                                                  *)
(***************************************************************************)

FixTrees == {
    "Player.js" :> "class Player {}\nexport default Player;\n"
        @@ "a.js" :> "import Player from './Player';\n",
    "m.js" :> "export const A = 1;\nexport default A;\n"
        @@ "n.js" :> "",
    "a.js" :> "x;;\n" }

\* stats and failed_files of fix.py
NoFixStats == [files_scanned |-> 0, files_fixed |-> 0, exports_modernized |-> 0,
               imports_fixed |-> 0, duplicates_fixed |-> 0,
               double_semicolon_fixed |-> 0, uicomponent_imports_fixed |-> 0,
               errors |-> 0, failed_files |-> <<>>]

\* re.finditer(r'(?<!export\s+)class\s+(\w+)', content) compiles its pattern
\* first, and re accepts a look-behind only if everything it matches has one
\* length: export\s+ matches texts of any length from its shortest on, so
\* re.error is raised whatever the content is.
LookBehindRaises(shortest, longest) == shortest # longest

\* find_all_exports of fix.py raises for this text.
FixFindAllExportsRaises(text) ==
    LookBehindRaises(Len("export") + Len(" "), Len("export") + Len(" ") + Len(text) + 1)

InitFix ==
    \E tree \in FixTrees : \E files \in Perms(DOMAIN tree), d, v \in BOOLEAN :
        \E unreadable \in SUBSET DOMAIN tree :
            /\ fs = tree
            /\ js_files = files
            /\ dry_run = d
            /\ pc = "read"
            /\ idx = 1
            /\ import_styles = EmptyMap
            /\ export_style_map = EmptyMap
            /\ original_content = ""
            /\ content = ""
            /\ all_changes = <<>>
            /\ stats = [NoFixStats EXCEPT !.files_scanned = Len(files)]
            /\ run = 1
            /\ start = tree
            /\ writes = [f \in DOMAIN tree |-> 0]
            /\ final = EmptyMap
            /\ changes = EmptyMap
            /\ prev = <<>>
            /\ io = [unreadable |-> unreadable, unwritable |-> {}, verbose |-> v]
            /\ errors = <<>>

\* The file is read; if that fails the error is counted, the file is listed
\* in failed_files and the loop moves on to the next file.
FixReadFile ==
    /\ pc = "read"
    /\ IF js_file \in io.unreadable
       THEN /\ stats' = [stats EXCEPT !.errors = @ + 1,
                                      !.failed_files = Append(@, js_file)]
            /\ errors' = errors \o Printed("Error reading", js_file)
            /\ idx' = idx + 1
            /\ pc' = IF idx = Len(js_files) THEN "report" ELSE "read"
            /\ UNCHANGED <<original_content, content, all_changes>>
       ELSE /\ original_content' = fs[js_file]
            /\ content' = fs[js_file]
            /\ all_changes' = <<>>
            /\ pc' = "resolve"
            /\ UNCHANGED <<stats, errors, idx>>
    /\ UNCHANGED <<fs, js_files, io, dry_run, import_styles, export_style_map,
                   run, start, writes, final, changes, prev>>

\* remove_duplicate_exports(content) calls find_all_exports(content), whose
\* last loop raises re.error; nothing in main catches it, and the program ends
\* with a traceback.
FixRemoveDuplicates ==
    /\ pc = "resolve"
    /\ FixFindAllExportsRaises(content)
    /\ pc' = "aborted"
    /\ UNCHANGED <<fs, js_files, io, errors, dry_run, idx, import_styles,
                   export_style_map, original_content, content, all_changes,
                   stats, run, start, writes, final, changes, prev>>

\* The final report, with the number of errors if there are any.
FixReport ==
    /\ pc = "report"
    /\ pc' = "done"
    /\ errors' = IF stats.errors > 0
                 THEN Append(errors, [msg |-> "Errors encountered", file |-> ""])
                 ELSE errors
    /\ UNCHANGED <<fs, js_files, io, dry_run, idx, import_styles,
                   export_style_map, original_content, content, all_changes,
                   stats, run, start, writes, final, changes, prev>>

NextFix ==
    \/ FixReadFile
    \/ FixRemoveDuplicates
    \/ FixReport

SpecFix == InitFix /\ [][NextFix]_vars

(***************************************************************************)
(* The properties.                                                         *)
(***************************************************************************)

Range(sq) == {sq[k] : k \in 1..Len(sq)}

\* The kinds of the export declarations of a symbol in a text, in scan order
\* (a bare class is no export declaration).
ExportKinds(text, name) ==
    LET ds == SelectSeq(AllDecls(FindAllExports(text)),
                        LAMBDA d : d.name = name /\ d.type # "named")
    IN  [k \in 1..Len(ds) |-> ds[k].type]

\* The kinds of all declarations of a symbol in a text, in scan order.
DeclKinds(text, name) ==
    LET ds == PositionsOf(AllDecls(FindAllExports(text)), name)
    IN  [k \in 1..Len(ds) |-> ds[k].type]

\* The symbols with two or more export declarations in a text.
Duplicated(text) ==
    {d.name : d \in {e \in Range(AllDecls(FindAllExports(text))) :
                        Len(ExportKinds(text, e.name)) >= 2}}

\* class > function > const > destructured > default
Priority == <<"class", "function", "const", "destructured", "default">>

\* The kind of highest priority among kinds.
Best(kinds) == Priority[Least({k \in 1..Len(Priority) : Priority[k] \in Range(kinds)})]

\* The duplicate resolver has just returned for the current file.
Resolved == pc = "modernize"

\* The run has processed every file.
Done == pc = "done"

\* C1: a second run, on the tree a first non-dry run has written, records no
\* change for any file and leaves every file's text as it found it.
C1_SecondRunChangesNothing ==
    (Done /\ run > 1 /\ ~prev[run - 1].dry_run)
        => /\ \A f \in DOMAIN changes : changes[f] = <<>>
           /\ final = start
           /\ fs = start

\* C2: while the duplicates of one symbol are resolved, the declarations of
\* every other symbol of the file stay as they are: each step of the resolver
\* over the duplicated symbols leaves the kinds of the other symbols'
\* declarations unchanged.
C2_SymbolLocality ==
    Resolved =>
        LET decls == AllDecls(FindAllExports(original_content))
            duplicates == Duplicates(decls)
            Before(k) == ResolveAll(Edited(original_content, <<>>), decls,
                                    SubSeq(duplicates, 1, k - 1))
        IN  \A k \in 1..Len(duplicates) :
                Bind(Before(k), LAMBDA st :
                Bind(ResolveName(st, decls, duplicates[k]), LAMBDA next :
                    \A d \in Range(decls) :
                        d.name # duplicates[k]
                            => DeclKinds(next.content, d.name)
                                   = DeclKinds(st.content, d.name)))

\* C3: a symbol declared once as default and once as const, in either order,
\* is left with its const declaration and without its default declaration.
C3_ConstBeatsDefault ==
    Resolved =>
        \A name \in Duplicated(original_content) :
            Range(ExportKinds(original_content, name)) = {"default", "const"}
                => ExportKinds(content, name) = <<"const">>

\* C4: every symbol that had two or more export declarations has exactly one
\* afterwards, of the kind of highest priority among those it had.
C4_ExactlyOneRemains ==
    Resolved =>
        \A name \in Duplicated(original_content) :
            ExportKinds(content, name) = <<Best(ExportKinds(original_content, name))>>

\* The shape the policy sets and the decided style require of a file
\* (sections 4.3 and 4.4 of the specification), read off the scan of its text:
\* no default export of a forced-named symbol or of the basename, no exported
\* class of a forced-named symbol without its export list entry, no export of
\* a kept-default basename's class other than as default, no default import
\* of a forced-named symbol, no named import of a kept-default symbol, and no
\* disagreement with the style decided for the file.
Canonical(path, text, style_map) ==
    LET exports == FindAllExports(text)
        imports == FindAllImports(text)
        basename == Stem(path)
        anonymous == {d.start : d \in {e \in Range(exports.default) :
                                           e.name = "_anonymous_"}}
        defaults == {d \in Range(exports.default) : d.start \notin anonymous}
        named == exports.class \o exports.function \o exports.destructured
    IN  /\ IF basename \in keep_as_default_exports
           THEN ~HasName(named \o exports.named, basename)
           ELSE /\ \A d \in defaults :
                       d.name \notin should_be_named_exports \cup {basename}
                /\ \A d \in Range(exports.class) :
                       d.name \in should_be_named_exports
                           => HasName(exports.destructured, d.name)
        /\ \A i \in Range(imports.default) : i.name \notin should_be_named_exports
        /\ \A i \in Range(imports.named) : i.name \notin keep_as_default_exports
        /\ path \in DOMAIN style_map =>
               IF style_map[path] = "named" THEN defaults = {}
               ELSE ~HasName(named, basename) \/ Len(exports.default) > 0

\* C5: a file without duplicated symbol and of canonical shape comes out of
\* the pipeline with the text it had, with no change recorded, and unwritten.
C5_NoOpRoundTrip ==
    Done =>
        \A f \in DOMAIN final :
            (Duplicated(start[f]) = {} /\ Canonical(f, start[f], export_style_map))
                => /\ final[f] = start[f]
                   /\ changes[f] = <<>>
                   /\ writes[f] = 0

\* The anonymous default exports of a text: export default function( and
\* export default class {, as written.
AnonymousDefaults(text) ==
    {Slice(text, m.start, m.end) :
        m \in Range(FindIter(ReAnonFunction, text, 0) \o FindIter(ReAnonClass, text, 0))}

\* C6: every anonymous default export of a file stands in the file's final
\* text as it was written.
C6_AnonymousDefaultUntouched ==
    Done =>
        \A f \in DOMAIN final :
            \A statement \in AnonymousDefaults(start[f]) : Contains(final[f], statement)

\* C7: where the policy and the tally disagree the policy decides: a forced
\* named symbol exported as default by a module imported mostly as default
\* ends as a named export, and a file of a kept-default basename that has a
\* default export and is imported mostly as named keeps a default export.
C7_PolicyOverridesTally ==
    Done =>
        \A f \in DOMAIN final \cap DOMAIN export_style_map :
            /\ export_style_map[f] = "default" =>
                   \A name \in should_be_named_exports :
                       "default" \in Range(ExportKinds(start[f], name))
                           => /\ "default" \notin Range(ExportKinds(final[f], name))
                              /\ ExportKinds(final[f], name) # <<>>
            /\ (export_style_map[f] = "named" /\ Stem(f) \in keep_as_default_exports
                    /\ HasDefaultExport(start[f]))
                   => HasDefaultExport(final[f])

\* C8: in a run a file is written at most once, only when its passes have
\* completed, and only if its final text differs from its text at the start
\* of the run.
C8_WrittenOnceAfterAllPasses ==
    \A f \in DOMAIN writes :
        /\ writes[f] <= 1
        /\ writes[f] = 1 => (f \in DOMAIN final /\ final[f] # start[f])

\* C9: a dry run writes nothing, and the run without --dry-run on the same
\* tree computes for every file the final text and the changes the dry run
\* computed.
C9_DryRunPreviewsTheRun ==
    /\ dry_run => (fs = start /\ \A f \in DOMAIN writes : writes[f] = 0)
    /\ (Done /\ run > 1 /\ prev[run - 1].dry_run /\ ~dry_run
            /\ prev[run - 1].start = start)
           => (final = prev[run - 1].final /\ changes = prev[run - 1].changes)

\* The run has built its tally.
TallyBuilt == pc \notin {"prepass", "analyze"}

\* C10: no file is written before the tally is built, and from then on the
\* tally is that of the import statements the files had at the start of the
\* run, whatever the run has written since.
C10_TallyIsFrozenSnapshot ==
    /\ ~TallyBuilt => \A f \in DOMAIN writes : writes[f] = 0
    /\ TallyBuilt => /\ import_styles = ImportStyles(js_files, start)
                     /\ export_style_map = ExportStyleMap(import_styles)

\* C11: the style decided for a tallied module path is named if it has more
\* named than default imports, otherwise default if it has a default import,
\* otherwise named.
C11_DecisionRule ==
    TallyBuilt =>
        /\ DOMAIN export_style_map = DOMAIN import_styles
        /\ \A p \in DOMAIN import_styles :
               LET namedCount == import_styles[p].named
                   defaultCount == import_styles[p].default
               IN  export_style_map[p] =
                       IF namedCount > defaultCount THEN "named"
                       ELSE IF defaultCount > 0 THEN "default"
                       ELSE "named"

\* A module imported 3 times as named and 2 times as default is classified
\* named, and a module imported once, as default, is classified default.
C11_ThreeNamedTwoDefault ==
    /\ TallyBuilt
    /\ \E p \in DOMAIN import_styles :
           /\ import_styles[p] = [named |-> 3, default |-> 2]
           /\ export_style_map[p] = "named"
    /\ \E p \in DOMAIN import_styles :
           /\ import_styles[p] = [named |-> 0, default |-> 1]
           /\ export_style_map[p] = "default"

\* The default exports of an identifier in a text that has no named form of
\* it (class, function, const or export list entry).
UnmirroredDefaults(text) ==
    LET exports == FindAllExports(text)
        named == exports.class \o exports.function \o exports.const
                     \o exports.destructured
    IN  {d.name : d \in {e \in Range(exports.default) :
                            /\ e.name \notin {"_anonymous_", "class", "function"}
                            /\ ~HasName(named, e.name)}}

\* C12: when the tally of the file's module has more named than default
\* imports, fix_import_export_mismatches rewrites every default export of an
\* identifier M that has no named form to export { M }; and records one
\* ChangeRecord for it.
C12_DefaultBecomesNamed ==
    [][(/\ pc = "mismatch"
        /\ js_file \in DOMAIN import_styles
        /\ import_styles[js_file].named > import_styles[js_file].default)
           => \A M \in UnmirroredDefaults(content) :
                  /\ Contains(content', "export { " \o M \o " };")
                  /\ "default" \notin Range(ExportKinds(content', M))
                  /\ Len(SelectSeq(SubSeq(all_changes', Len(all_changes) + 1,
                                          Len(all_changes')),
                                   LAMBDA c : c.sym = M)) = 1]_vars

\* The module of export default M; is imported twice as named and once as
\* default, and its default export has been rewritten.
C12_ScenarioD ==
    /\ pc = "semicolons"
    /\ js_file \in DOMAIN import_styles
    /\ import_styles[js_file] = [named |-> 2, default |-> 1]
    /\ original_content = "export default M;" \o NL
    /\ content = "export { M };" \o NL
    /\ all_changes = <<Change("Converted default export to named export", "M")>>

\* The symbols an export list of a text names twice or more.
ListedTwice(text) ==
    LET entries == FindAllExports(text).destructured
    IN  {entries[i].name : i \in {k \in 1..Len(entries) :
            \E j \in 1..Len(entries) :
                j # k /\ entries[j].name = entries[k].name
                      /\ entries[j].start = entries[k].start}}

\* C13: a symbol listed twice in one export list, and exported nowhere else,
\* is exported once afterwards, by an export list, with one ChangeRecord for
\* the removal; export {A, A}; becomes export { A };.
C13_ListedTwiceStaysOnce ==
    Resolved =>
        /\ \A name \in ListedTwice(original_content) :
               ExportKinds(original_content, name) = <<"destructured", "destructured">>
                   => /\ ExportKinds(content, name) = <<"destructured">>
                      /\ Len(SelectSeq(all_changes, LAMBDA c : c.sym = name)) = 1
        /\ original_content = "export {A, A};" => content = "export { A };"

\* The forced-named symbols a text exports as default (export default Foo)
\* and declares as a bare class (class Foo, not exported).
DefaultOfBareClass(text) ==
    LET exports == FindAllExports(text)
    IN  {name \in should_be_named_exports :
            /\ HasName(exports.default, name)
            /\ ~HasName(exports.class, name)
            /\ HasName(Entries(FindIter(ReClass, text, 0)), name)}

\* C14: a file whose basename is not kept default and that holds
\* export default Foo and a bare class Foo, Foo forced named, comes out of
\* the pipeline with export { Foo }; and without a default export of Foo.
C14_ScenarioA ==
    Done =>
        \A f \in DOMAIN final :
            Stem(f) \notin keep_as_default_exports =>
                \A Foo \in DefaultOfBareClass(start[f]) :
                    /\ Contains(final[f], "export { " \o Foo \o " };")
                    /\ "default" \notin Range(ExportKinds(final[f], Foo))

\* C15: for every file the loop over the exports has processed, the final
\* text it computed contains no run of two or more consecutive semicolons.
C15_NoSemicolonRun ==
    \A f \in DOMAIN final : ~Contains(final[f], ";;")

\* C16: at the end of a run, every file that could not be read was skipped
\* and has an error recorded in the run's output, and every other file went
\* through the loop.
C16_FailureIsRecorded ==
    Done => \A f \in Range(js_files) :
                IF f \in io.unreadable
                THEN /\ f \notin DOMAIN final
                     /\ \E k \in 1..Len(errors) : errors[k].file = f
                ELSE f \in DOMAIN final

\* C17: no uncaught error aborts the run, whatever the tree holds and
\* whichever files fail to read.
C17_NoConditionIsFatal == pc # "aborted"

\* C18: remove_duplicate_exports applied to the text it has just returned
\* returns that text unchanged, with an empty list of changes.
C18_Idempotent ==
    Resolved => RemoveDuplicateExports(content) = Edited(content, <<>>)

\* C19: when the only duplicated symbol of a file has two or more
\* declarations of its kind of highest priority, at different places and
\* before every other declaration of the symbol, the resolver leaves the first
\* of them where it stands and leaves the symbol no other declaration.
C19_FirstOfBestKindIsKept ==
    Resolved =>
        \A name \in Duplicated(original_content) :
            LET ds == SelectSeq(AllDecls(FindAllExports(original_content)),
                                LAMBDA d : d.name = name /\ d.type # "named")
                best == Best([k \in 1..Len(ds) |-> ds[k].type])
                starts == {d.start : d \in {e \in Range(ds) : e.type = best}}
                first == CHOOSE d \in Range(ds) : d.type = best /\ d.start = Least(starts)
            IN  (/\ Duplicated(original_content) = {name}
                 /\ Cardinality(starts) >= 2
                 /\ \A d \in Range(ds) : d.start >= first.start)
                    => /\ Upto(content, first.end) = Upto(original_content, first.end)
                       /\ Len(ExportKinds(content, name)) = 1

\* The entries of the export lists of a text, in scan order.
ListedNames(text) ==
    LET es == FindAllExports(text).destructured
    IN  [k \in 1..Len(es) |-> es[k].name]

\* C20: when the only duplicated symbol of a file stands once in an export
\* list and has a declaration of higher priority, the resolver deletes the
\* whole export statement if the symbol is its sole entry, and otherwise
\* leaves the export lists with their other entries, in order and separated
\* by commas.
C20_EntryRemovedFromList ==
    Resolved =>
        \A name \in Duplicated(original_content) :
            LET kinds == ExportKinds(original_content, name)
                listed == ListedNames(original_content)
            IN  (/\ Duplicated(original_content) = {name}
                 /\ Best(kinds) # "destructured"
                 /\ Len(SelectSeq(kinds, LAMBDA k : k = "destructured")) = 1)
                    => /\ ListedNames(content) = SelectSeq(listed, LAMBDA n : n # name)
                       /\ Len(listed) = 1 =>
                              (~Contains(content, "export {") /\ ~Contains(content, "export{"))

\* The text declares a class of this name.
DeclaresClass(text, name) ==
    HasName(Entries(FindIter(ReClass, text, 0)), name)

\* The class of this name is the default export of the text: export default
\* class Name, or export default Name beside the class.
IsDefaultClass(text, name) ==
    \/ Search(LAMBDA t, i : Hit(ReWordsB(<<"export", "default", "class", name>>, t, i), ""),
              text).start >= 0
    \/ Search(LAMBDA t, i : Hit(ReWordsB(<<"export", "default", name>>, t, i), ""),
              text).start >= 0

\* C21: modernize_exports, on a file whose basename is kept default and
\* whose text declares a class of that name, returns a text where that class
\* is the default export and stands in no export list.
C21_KeptDefaultClassIsDefault ==
    [][(/\ pc = "modernize"
        /\ Stem(js_file) \in keep_as_default_exports
        /\ DeclaresClass(content, Stem(js_file)))
           => /\ IsDefaultClass(content', Stem(js_file))
              /\ ~HasName(FindAllExports(content').destructured, Stem(js_file))]_vars

\* The class, function and export-list declarations of a text whose symbol
\* is this name.
EligibleExports(text, name) ==
    LET exports == FindAllExports(text)
    IN  SelectSeq(exports.class \o exports.function \o exports.destructured,
                  LAMBDA d : d.name = name)

\* C22: when the style decided for a file is default, the reconciliation
\* pass leaves the text as it is unless exactly one class, function or
\* export-list declaration of the file has the file's basename as its symbol.
C22_OnlyOneEligibleIsConverted ==
    [][(/\ pc = "mismatch"
        /\ js_file \in DOMAIN export_style_map
        /\ export_style_map[js_file] = "default"
        /\ Len(EligibleExports(content, Stem(js_file))) # 1)
           => content' = content]_vars

\* The import specifier is relative: it starts with ./ or ../
IsRelative(import_path) ==
    StartsWith(import_path, "./") \/ StartsWith(import_path, "../")

\* The imports of one file with a relative specifier, as the first pass
\* visits them, each with the module path it resolves to.
RelativeImportsOf(file, text) ==
    LET imports == FindAllImports(text)
        Seen(kind) ==
            LET rel == SelectSeq(imports[kind], LAMBDA i : IsRelative(i.path))
            IN  [k \in 1..Len(rel) |->
                    [kind |-> kind,
                     module_path |-> ResolveImportPath(file, rel[k].path)]]
    IN  Seen("default") \o Seen("named")

\* C23: the tally of a run holds the imports with a relative specifier and
\* no other: an import with a non-relative specifier adds no entry and no
\* count to it.
C23_NonRelativeNotTallied ==
    TallyBuilt =>
        import_styles =
            Count([p \in {} |-> [named |-> 0, default |-> 0]],
                  Flatten([k \in 1..Len(js_files) |->
                              RelativeImportsOf(js_files[k], start[js_files[k]])]))

\* C24: among the declarations find_all_exports records for a file there is
\* none whose symbol is the empty string.
C24_NoEmptySymbol ==
    Resolved =>
        \A d \in Range(AllDecls(FindAllExports(original_content))) : d.name # ""

\* The aliased entries X as Y among the entries of the lists matched: the
\* name before the alias and the name after it.
Aliases(ms) ==
    UNION {LET pieces == SplitComma(ms[k].list)
           IN  {[before |-> Strip(Split(pieces[j], " as ")[1]),
                 after |-> Strip(Split(pieces[j], " as ")[2])] :
                    j \in {i \in 1..Len(pieces) : Contains(pieces[i], " as ")}} :
           k \in 1..Len(ms)}

\* The lists between the braces of the named imports and of the export
\* lists of a text.
ImportLists(text) ==
    LET ms == FindIter(ReImportNamed, text, 0) IN [k \in 1..Len(ms) |-> [list |-> ms[k].g[1]]]

ExportLists(text) ==
    LET ms == FindIter(ReExportList, text, 0) IN [k \in 1..Len(ms) |-> [list |-> ms[k].g]]

\* C25: for an import entry X as Y find_all_imports records the local name
\* Y, and for an export entry X as Y find_all_exports records the exported
\* name X.
C25_AliasedNames ==
    Resolved =>
        /\ \A a \in Aliases(ImportLists(original_content)) :
               HasName(FindAllImports(original_content).named, a.after)
        /\ \A a \in Aliases(ExportLists(original_content)) :
               HasName(FindAllExports(original_content).destructured, a.before)

\* What the import statements of a text bind: each local name with the
\* module path string it is imported from.
ImportBindings(text) ==
    LET imports == FindAllImports(text)
    IN  {[name |-> i.name, path |-> i.path] :
            i \in Range(imports.default \o imports.named)}

\* C26: fix_imports leaves every import statement with the module path
\* string and the local name it had: the text it returns binds the same names
\* from the same paths.
C26_ImportsKeepPathAndName ==
    [][pc = "imports" => ImportBindings(content') = ImportBindings(content)]_vars

\* The number of default exports of a text: the places where export default
\* stands.
DefaultExportCount(text) ==
    Len(FindIter(LAMBDA t, i : Hit(Ws1(t, ReWords(<<"export", "default">>, t, i)), ""),
                 text, 0))

\* C27: a file that has at most one default export at the start of a run
\* has at most one in its final text.
C27_AtMostOneDefault ==
    Done =>
        \A f \in DOMAIN final :
            DefaultExportCount(start[f]) <= 1 => DefaultExportCount(final[f]) <= 1

\* C28: at the end of a run the counter of files changed is at most the
\* counter of files scanned.
C28_ChangedAtMostScanned ==
    Done => stats.files_fixed <= stats.files_scanned

\* C29: every module path of the tally has at least one import counted, and
\* a module with as many named as default imports is decided default.
C29_TalliedModuleHasEvidence ==
    TallyBuilt =>
        \A p \in DOMAIN import_styles :
            /\ import_styles[p].named + import_styles[p].default >= 1
            /\ import_styles[p].named = import_styles[p].default
                   => export_style_map[p] = "default"

\* A module imported once as named and once as default is decided default.
C29_TieIsDefault ==
    /\ TallyBuilt
    /\ \E p \in DOMAIN import_styles :
           /\ import_styles[p] = [named |-> 1, default |-> 1]
           /\ export_style_map[p] = "default"

\* C30: two runs over the same tree with the same options compute the same
\* final text for every file, whatever the order in which each of them
\* visits the files.
C30_OrderIndependent ==
    (Done /\ run > 1) => final = prev[run - 1].final

====
